---- MODULE Spec2Model ----
(***************************************************************************)
(* Model of the DID syntax library of EncrypteDL/IDChain (package backend):*)
(* Parse, ParseURL, parseHex, DID.String, DID.EqualString, Equal and       *)
(* SyntaxError.Error, translated from src/Backend/did.go and               *)
(* src/Backend/url.go.                                                     *)
(*                                                                         *)
(* A Go string is a sequence of bytes (integers 0..255).  Go indexes from  *)
(* 0; At and Slice keep the indices of the source.                         *)
(***************************************************************************)
EXTENDS Integers, Sequences, FiniteSets, TLC

VARIABLES s, o, d, idx, pc, ret, params, owner

vars == <<s, o, d, idx, pc, ret, params, owner>>

-----------------------------------------------------------------------------
(* Bytes and strings                                                       *)

\* ASCII codes of the bytes the source names in its character literals.
ch == [colon |-> 58, pct |-> 37, slash |-> 47, quest |-> 63, hash |-> 35,
       dot |-> 46, dash |-> 45, under |-> 95, tilde |-> 126,
       d0 |-> 48, d9 |-> 57, A |-> 65, F |-> 70, Z |-> 90,
       a |-> 97, f |-> 102, z |-> 122, at |-> 64]

\* s[i]
At(str, i) == str[i + 1]

\* s[a:b]
Slice(str, a, b) == SubSeq(str, a + 1, b)

\* strings.IndexAny(s, chars): index of the first byte of s in chars, or -1
IndexAny(str, chars) ==
    IF \E k \in 0..(Len(str) - 1) : At(str, k) \in chars
    THEN CHOOSE k \in 0..(Len(str) - 1) :
            /\ At(str, k) \in chars
            /\ \A j \in 0..(k - 1) : At(str, j) \notin chars
    ELSE -1

\* const prefix = "did:"
prefix == <<100, 105, 100, 58>>

\* the zero DID value DID{}
ZeroDID == [Method |-> <<>>, SpecID |-> <<>>]

\* a nil error
NilErr == [nil |-> TRUE, S |-> <<>>, I |-> 0]

\* &SyntaxError{S: str, I: i}
SyntaxError(str, i) == [nil |-> FALSE, S |-> str, I |-> i]

-----------------------------------------------------------------------------
(* Character classes: the case lists of the switch statements              *)

\* case list of readMethodName (method-char: DIGIT / %x61-7A)
methodChar == (ch.d0 .. ch.d9) \cup (ch.a .. ch.z)

\* case list of both Parse loops without ':' (idchar excluding pct-encoded)
idcharParse ==
    (ch.d0 .. ch.d9) \cup (ch.a .. ch.z) \cup (ch.A .. ch.Z)
        \cup {ch.dot, ch.dash, ch.under}

\* the literal case list of DID.EqualString: no upper-case letters
idcharEqualString ==
    (ch.d0 .. ch.d9) \cup (ch.a .. ch.z) \cup {ch.dot, ch.dash, ch.under}

idcharString_colon ==
    (ch.d0 .. ch.d9) \cup (ch.a .. ch.z) \cup (ch.A .. ch.Z)
        \cup {ch.dot, ch.dash, ch.under, ch.colon}

\* case list of both DID.String loops (bytes written without escape)
idcharString ==
    (ch.d0 .. ch.d9) \cup (ch.a .. ch.z) \cup (ch.A .. ch.Z)
        \cup {ch.dot, ch.dash, ch.under}

-----------------------------------------------------------------------------
(* HexCodec                                                                *)

hexTable_lower ==
    <<48, 49, 50, 51, 52, 53, 54, 55, 56, 57, 97, 98, 99, 100, 101, 102>>

\* var hexTable = [16]byte{'0', ..., '9', 'A', ..., 'F'}
hexTable ==
    <<48, 49, 50, 51, 52, 53, 54, 55, 56, 57, 65, 66, 67, 68, 69, 70>>

hexNibble_noLower(c) ==
    IF c \in ch.d0 .. ch.d9 THEN c - ch.d0
    ELSE IF c \in ch.A .. ch.F THEN c - ch.A + 10
    ELSE IF c \in ch.a .. ch.f THEN c - ch.a
    ELSE -1

\* the three value cases of each switch in parseHex; -1 for its default case
hexNibble(c) ==
    IF c \in ch.d0 .. ch.d9 THEN c - ch.d0
    ELSE IF c \in ch.A .. ch.F THEN c - ch.A + 10
    ELSE IF c \in ch.a .. ch.f THEN c - ch.a + 10
    ELSE -1

parseHex_sameIndex(str, i) ==
    IF i >= Len(str) THEN [v |-> 0, err |-> SyntaxError(str, i)]
    ELSE IF hexNibble(At(str, i)) < 0
    THEN [v |-> 0, err |-> SyntaxError(str, i)]
    ELSE IF i + 1 >= Len(str) THEN [v |-> 0, err |-> SyntaxError(str, i)]
    ELSE IF hexNibble(At(str, i + 1)) < 0
    THEN [v |-> 0, err |-> SyntaxError(str, i)]
    ELSE [v |-> ((hexNibble(At(str, i)) * 16) % 256)
                    + hexNibble(At(str, i + 1)),
          err |-> NilErr]

\* parseHex(s, i): the index is incremented before the second digit is read
parseHex(str, i) ==
    IF i >= Len(str) THEN [v |-> 0, err |-> SyntaxError(str, i)]
    ELSE IF hexNibble(At(str, i)) < 0
    THEN [v |-> 0, err |-> SyntaxError(str, i)]
    ELSE IF i + 1 >= Len(str)
    THEN [v |-> 0, err |-> SyntaxError(str, i + 1)]
    ELSE IF hexNibble(At(str, i + 1)) < 0
    THEN [v |-> 0, err |-> SyntaxError(str, i + 1)]
    ELSE [v |-> ((hexNibble(At(str, i)) * 16) % 256)
                    + hexNibble(At(str, i + 1)),
          err |-> NilErr]

-----------------------------------------------------------------------------
(* DIDParser                                                               *)

\* the for loop of readMethodName, at index i
RECURSIVE readMethodNameFrom(_, _)
readMethodNameFrom(str, i) ==
    IF i >= Len(str)
    THEN [method |-> <<>>, err |-> SyntaxError(str, Len(str))]
    ELSE IF At(str, i) \in methodChar THEN readMethodNameFrom(str, i + 1)
    ELSE IF At(str, i) = ch.colon
    THEN IF i = Len(prefix)
         THEN [method |-> <<>>, err |-> SyntaxError(str, Len(prefix))]
         ELSE [method |-> Slice(str, Len(prefix), i), err |-> NilErr]
    ELSE [method |-> <<>>, err |-> SyntaxError(str, i)]

readMethodName(str) == readMethodNameFrom(str, Len(prefix))

\* len(s) < len(prefix) || s[:len(prefix)] != prefix, negated
hasPrefix(str) ==
    Len(str) >= Len(prefix) /\ Slice(str, 0, Len(prefix)) = prefix

schemeCut_colonOnly == {ch.colon}

\* the cutset ":/?#" of the wrong-scheme test in Parse
schemeCut == {ch.colon, ch.slash, ch.quest, ch.hash}

\* "for i := range prefix": the first index at which s leaves the prefix,
\* or -1 when the loop ends without a return
prefixMismatch(str) ==
    LET bad(k) == k >= Len(str) \/ At(prefix, k) # At(str, k)
    IN  IF \E k \in 0..(Len(prefix) - 1) : bad(k)
        THEN CHOOSE k \in 0..(Len(prefix) - 1) :
                bad(k) /\ \A j \in 0..(k - 1) : ~bad(j)
        ELSE -1

lastColon_never(str, i) == FALSE

\* "if i == len(s)-1" under case ':' in both Parse loops
lastColon(str, i) == i = Len(str) - 1

\* the NoEscapes loop: a result, or the index of the first '%'
RECURSIVE noEscapes(_, _, _, _)
noEscapes(str, method, specIDStart, i) ==
    IF i >= Len(str)
    THEN [brk |-> FALSE, i |-> i,
          did |-> [Method |-> method,
                   SpecID |-> Slice(str, specIDStart, Len(str))],
          err |-> NilErr]
    ELSE IF At(str, i) = ch.colon /\ lastColon(str, i)
    THEN [brk |-> FALSE, i |-> i, did |-> ZeroDID,
          err |-> SyntaxError(str, i)]
    ELSE IF At(str, i) = ch.colon \/ At(str, i) \in idcharParse
    THEN noEscapes(str, method, specIDStart, i + 1)
    ELSE IF At(str, i) = ch.pct
    THEN [brk |-> TRUE, i |-> i, did |-> ZeroDID, err |-> NilErr]
    ELSE [brk |-> FALSE, i |-> i, did |-> ZeroDID,
          err |-> SyntaxError(str, i)]

\* the decoding loop "for i < len(s)" with builder b
RECURSIVE escapes(_, _, _, _)
escapes(str, method, i, b) ==
    IF i >= Len(str)
    THEN [did |-> [Method |-> method, SpecID |-> b], err |-> NilErr]
    ELSE IF At(str, i) = ch.colon /\ lastColon(str, i)
    THEN [did |-> ZeroDID, err |-> SyntaxError(str, i)]
    ELSE IF At(str, i) = ch.colon \/ At(str, i) \in idcharParse
    THEN escapes(str, method, i + 1, Append(b, At(str, i)))
    ELSE IF At(str, i) = ch.pct
    THEN LET h == parseHex(str, i + 1)
         IN  IF ~h.err.nil THEN [did |-> ZeroDID, err |-> h.err]
             ELSE escapes(str, method, i + 3, Append(b, h.v))
    ELSE [did |-> ZeroDID, err |-> SyntaxError(str, i)]

\* Parse from "method, err := readMethodName(s)" on
parseBody(str) ==
    LET m == readMethodName(str)
        specIDStart == Len(prefix) + Len(m.method) + 1
    IN  IF ~m.err.nil THEN [did |-> ZeroDID, err |-> m.err]
        ELSE IF specIDStart >= Len(str)
        THEN [did |-> ZeroDID, err |-> SyntaxError(str, specIDStart)]
        ELSE LET n == noEscapes(str, m.method, specIDStart, specIDStart)
             IN  IF ~n.brk THEN [did |-> n.did, err |-> n.err]
                 ELSE escapes(str, m.method, n.i,
                              Slice(str, specIDStart, n.i))

\* func Parse(s string) (DID, error)
Parse(str) ==
    IF ~hasPrefix(str)
    THEN LET i == IndexAny(str, schemeCut)
         IN  IF i >= 0 /\ At(str, i) = ch.colon
             THEN [did |-> ZeroDID, err |-> SyntaxError(str, i)]
             ELSE IF prefixMismatch(str) >= 0
             THEN [did |-> ZeroDID,
                   err |-> SyntaxError(str, prefixMismatch(str))]
             ELSE parseBody(str)
    ELSE parseBody(str)

-----------------------------------------------------------------------------
(* Normalizer / Equal                                                      *)

\* the loop "for j := 0; j < len(d.SpecID); j++" of DID.EqualString
RECURSIVE equalStringLoop(_, _, _, _)
equalStringLoop(did, str, i, j) ==
    IF j >= Len(did.SpecID) THEN i >= Len(str)
    ELSE LET c == At(did.SpecID, j)
         IN  IF i >= Len(str) THEN FALSE
             ELSE IF At(str, i) \in idcharEqualString
             THEN IF At(str, i) # c THEN FALSE
                  ELSE equalStringLoop(did, str, i + 1, j + 1)
             ELSE IF At(str, i) = ch.colon
             THEN IF At(str, i) # c \/ j = Len(did.SpecID) - 1 THEN FALSE
                  ELSE equalStringLoop(did, str, i + 1, j + 1)
             ELSE IF At(str, i) = ch.pct
             THEN LET h == parseHex(str, i + 1)
                  IN  IF ~h.err.nil \/ h.v # c THEN FALSE
                      ELSE equalStringLoop(did, str, i + 3, j + 1)
             ELSE FALSE

\* func (d DID) EqualString(s string) bool
EqualString(did, str) ==
    IF ~hasPrefix(str) THEN FALSE
    ELSE LET m == readMethodName(str)
         IN  IF ~m.err.nil \/ m.method # did.Method THEN FALSE
             ELSE IF did.SpecID = <<>> THEN FALSE
             ELSE equalStringLoop(did, str,
                                  Len(prefix) + Len(m.method) + 1, 0)

\* func Equal(s1, s2 string) bool
Equal(s1, s2) ==
    LET p == Parse(s1) IN p.err.nil /\ EqualString(p.did, s2)

-----------------------------------------------------------------------------
(* Serializer                                                              *)

\* the counting loop of DID.String
escapeN(did) ==
    Cardinality({k \in 0..(Len(did.SpecID) - 1) :
                    At(did.SpecID, k) \notin idcharString})

\* the writing loop of DID.String, at index i with builder b
RECURSIVE writeSpecID(_, _, _)
writeSpecID(did, i, b) ==
    IF i >= Len(did.SpecID) THEN b
    ELSE LET c == At(did.SpecID, i)
         IN  IF c \in idcharString
             THEN writeSpecID(did, i + 1, Append(b, c))
             ELSE writeSpecID(did, i + 1,
                     b \o <<ch.pct, hexTable[(c \div 16) + 1],
                            hexTable[(c % 16) + 1]>>)

\* func (d DID) String() string
String(did) ==
    IF did.Method = <<>> /\ did.SpecID = <<>> THEN <<>>
    ELSE IF escapeN(did) = 0
    THEN prefix \o did.Method \o <<ch.colon>> \o did.SpecID
    ELSE writeSpecID(did, 0, prefix \o did.Method \o <<ch.colon>>)

-----------------------------------------------------------------------------
(* ErrorModel                                                              *)

\* the length limit of the quoted input in SyntaxError.Error
TruncateLen == 200

\* no formatted text
NoMsg == [fmt |-> "", S |-> <<>>, desc |-> "", args |-> <<>>]

\* the cutset ":/?#" of the wrong-scheme case in SyntaxError.Error
errorCut == {ch.colon, ch.slash, ch.quest, ch.hash}

\* func (e *SyntaxError) Error() string.  A text is its format string, the
\* %q argument S, and the description with its arguments (the byte and the
\* position of "illegal %q at byte # %d", where # is U+2116 in the source).
Error(e) ==
    IF e.S = <<>>
    THEN [fmt |-> "empty DID string", S |-> <<>>, desc |-> "", args |-> <<>>]
    ELSE LET desc ==
                IF e.I < 0 THEN [desc |-> "reason unkown", args |-> <<>>]
                ELSE IF e.I >= Len(e.S)
                THEN [desc |-> "end imcompltet", args |-> <<>>]
                ELSE IF At(e.S, e.I) = ch.colon
                        /\ IndexAny(e.S, errorCut) >= e.I
                THEN [desc |-> "", args |-> <<>>]
                ELSE [desc |-> "illegal %q at byte # %d",
                      args |-> <<At(e.S, e.I), e.I + 1>>]
         IN  IF Len(e.S) <= TruncateLen
             THEN [fmt |-> "invalid DID %q: %s", S |-> e.S,
                   desc |-> desc.desc, args |-> desc.args]
             ELSE [fmt |-> "invalid DID %q [truncated]: %s",
                   S |-> Slice(e.S, 0, TruncateLen - 1) \o <<46, 46, 46>>,
                   desc |-> desc.desc, args |-> desc.args]

-----------------------------------------------------------------------------
(* URLParser                                                               *)

\* URL{DID: did, RawPath: p, RawQuery: q, RawFragment: f}
URL(did, p, q, f) ==
    [DID |-> did, RawPath |-> p, RawQuery |-> q, RawFragment |-> f]

\* the zero URL; also stands for the nil *URL of a failed ParseURL
ZeroURL == URL(ZeroDID, <<>>, <<>>, <<>>)

\* RFC 3986 unreserved, as listed in the case lists of ParseURL
unreserved ==
    (ch.d0 .. ch.d9) \cup (ch.A .. ch.Z) \cup (ch.a .. ch.z)
        \cup {ch.dash, ch.dot, ch.under, ch.tilde}

\* RFC 3986 sub-delims: ! $ & ' ( ) * + , ; =
subDelims == {33, 36, 38, 39, 40, 41, 42, 43, 44, 59, 61}

\* case list of the path loop of ParseURL
pathChar == unreserved \cup subDelims \cup {ch.colon, ch.at, ch.slash}

\* case list of the query loop of ParseURL
queryChar ==
    unreserved \cup subDelims \cup {ch.colon, ch.at, ch.slash, ch.quest}

fragmentChar_hash ==
    unreserved \cup subDelims
        \cup {ch.colon, ch.at, ch.slash, ch.quest, ch.hash}

\* case list of the fragment loop of ParseURL
fragmentChar ==
    unreserved \cup subDelims \cup {ch.colon, ch.at, ch.slash, ch.quest}

urlCut_colon == {ch.slash, ch.quest, ch.hash, ch.colon}

\* the cutset "/?#" that ends the DID of a DID URL
urlCut == {ch.slash, ch.quest, ch.hash}

relativeColon_anywhere(str, i) == IndexAny(str, {ch.colon})

\* the relative-reference scan: the index of a ':' found before any of
\* '/', '?', '#', or -1
RECURSIVE relativeColon(_, _)
relativeColon(str, i) ==
    IF i >= Len(str) THEN -1
    ELSE IF At(str, i) = ch.colon THEN i
    ELSE IF At(str, i) \in {ch.slash, ch.quest, ch.hash} THEN -1
    ELSE relativeColon(str, i + 1)

\* the path loop: an error, or the index at which the path ends
RECURSIVE pathLoop(_, _)
pathLoop(str, i) ==
    IF i >= Len(str) THEN [i |-> i, err |-> NilErr]
    ELSE IF At(str, i) \in pathChar THEN pathLoop(str, i + 1)
    ELSE IF At(str, i) = ch.pct
    THEN LET h == parseHex(str, i + 1)
         IN  IF ~h.err.nil THEN [i |-> i, err |-> h.err]
             ELSE pathLoop(str, i + 3)
    ELSE IF At(str, i) \in {ch.quest, ch.hash}
    THEN [i |-> i, err |-> NilErr]
    ELSE [i |-> i, err |-> SyntaxError(str, i)]

\* the query loop: an error, or the index at which the query ends
RECURSIVE queryLoop(_, _)
queryLoop(str, i) ==
    IF i >= Len(str) THEN [i |-> i, err |-> NilErr]
    ELSE IF At(str, i) \in queryChar THEN queryLoop(str, i + 1)
    ELSE IF At(str, i) = ch.pct
    THEN LET h == parseHex(str, i + 1)
         IN  IF ~h.err.nil THEN [i |-> i, err |-> h.err]
             ELSE queryLoop(str, i + 3)
    ELSE IF At(str, i) = ch.hash THEN [i |-> i, err |-> NilErr]
    ELSE [i |-> i, err |-> SyntaxError(str, i)]

\* the fragment loop "for i < len(s)"
RECURSIVE fragmentLoop(_, _)
fragmentLoop(str, i) ==
    IF i >= Len(str) THEN [i |-> i, err |-> NilErr]
    ELSE IF At(str, i) \in fragmentChar THEN fragmentLoop(str, i + 1)
    ELSE IF At(str, i) = ch.pct
    THEN LET h == parseHex(str, i + 1)
         IN  IF ~h.err.nil THEN [i |-> i, err |-> h.err]
             ELSE fragmentLoop(str, i + 3)
    ELSE [i |-> i, err |-> SyntaxError(str, i)]

\* ParseURL from "Read Fragment" on: the fragment starts at offset
parseFragment(str, did, rawPath, rawQuery, offset) ==
    LET f == fragmentLoop(str, offset + 1)
    IN  IF ~f.err.nil THEN [u |-> ZeroURL, err |-> f.err]
        ELSE [u |-> URL(did, rawPath, rawQuery,
                        Slice(str, offset, Len(str))),
              err |-> NilErr]

\* ParseURL from "offset := i" on: the path starts at i
parseComponents(str, did, i) ==
    LET p == pathLoop(str, i)
    IN  IF ~p.err.nil THEN [u |-> ZeroURL, err |-> p.err]
        ELSE IF p.i >= Len(str)
        THEN [u |-> URL(did, Slice(str, i, Len(str)), <<>>, <<>>),
              err |-> NilErr]
        ELSE IF At(str, p.i) = ch.quest
        THEN LET q == queryLoop(str, p.i + 1)
             IN  IF ~q.err.nil THEN [u |-> ZeroURL, err |-> q.err]
                 ELSE IF q.i >= Len(str)
                 THEN [u |-> URL(did, Slice(str, i, p.i),
                                 Slice(str, p.i, Len(str)), <<>>),
                       err |-> NilErr]
                 ELSE parseFragment(str, did, Slice(str, i, p.i),
                                    Slice(str, p.i, q.i), q.i)
        ELSE parseFragment(str, did, Slice(str, i, p.i), <<>>, p.i)

ParseURL_keepS(str) ==
    IF str = <<>> THEN [u |-> ZeroURL, err |-> SyntaxError(<<>>, 0)]
    ELSE IF hasPrefix(str)
    THEN LET i == IndexAny(str, urlCut)
         IN  IF i < 0
             THEN LET p == Parse(str)
                  IN  IF ~p.err.nil THEN [u |-> ZeroURL, err |-> p.err]
                      ELSE [u |-> URL(p.did, <<>>, <<>>, <<>>),
                            err |-> NilErr]
             ELSE LET p == Parse(Slice(str, 0, i))
                  IN  IF ~p.err.nil THEN [u |-> ZeroURL, err |-> p.err]
                      ELSE parseComponents(str, p.did, i)
    ELSE IF relativeColon(str, 0) >= 0
    THEN [u |-> ZeroURL, err |-> SyntaxError(str, relativeColon(str, 0))]
    ELSE parseComponents(str, ZeroDID, 0)

\* func ParseURL(s string) (*URL, error)
ParseURL(str) ==
    IF str = <<>> THEN [u |-> ZeroURL, err |-> SyntaxError(<<>>, 0)]
    ELSE IF hasPrefix(str)
    THEN LET i == IndexAny(str, urlCut)
         IN  IF i < 0
             THEN LET p == Parse(str)
                  IN  IF ~p.err.nil THEN [u |-> ZeroURL, err |-> p.err]
                      ELSE [u |-> URL(p.did, <<>>, <<>>, <<>>),
                            err |-> NilErr]
             ELSE LET p == Parse(Slice(str, 0, i))
                  IN  IF ~p.err.nil
                      THEN [u |-> ZeroURL, err |-> [p.err EXCEPT !.S = str]]
                      ELSE parseComponents(str, p.did, i)
    ELSE IF relativeColon(str, 0) >= 0
    THEN [u |-> ZeroURL, err |-> SyntaxError(str, relativeColon(str, 0))]
    ELSE parseComponents(str, ZeroDID, 0)

-----------------------------------------------------------------------------
(* Inputs                                                                  *)

\* url.Values restricted to the keys "versionId", "versionTime" and one
\* other key, each holding a list of values; here with no key present
NoParams == [versionId |-> <<>>, versionTime |-> <<>>, other |-> <<>>]

\* address(0), the value of the storage of a contract not yet deployed
ZeroAddress == 0

\* longest tail appended to a head of Heads
MaxTail == 4

\* longest argument of parseHex
MaxHexLen == 3

\* longest tail of the strings compared by EqualString and Equal
MaxEqTail == 3

\* longest method-specific identifier of a DID value that is serialized
MaxSpecID == 3

\* all strings over alphabet A of length at most n
StrUpTo(A, n) == UNION {[1..k -> A] : k \in 0..n}

\* ':' '%' '3' 'A' 'a' '/' '?' '#' and ' ', which no component accepts
Alphabet == {58, 37, 51, 65, 97, 47, 63, 35, 32}

\* "", "di", "did:", "did:a:"
Heads == {<<>>, <<100, 105>>, prefix, prefix \o <<97, 58>>}

Inputs == {h \o t : h \in Heads, t \in StrUpTo(Alphabet, MaxTail)}

\* the bytes next to and inside the three hex digit ranges, and '%'
HexAlphabet == {47, 48, 57, 58, 64, 65, 70, 71, 96, 97, 102, 103, 37}

HexInputs == StrUpTo(HexAlphabet, MaxHexLen)

\* ':' '%' '3' 'A' 'a'
EqAlphabet == {58, 37, 51, 65, 97}

EqInputs == {prefix \o <<97, 58>> \o t : t \in StrUpTo(EqAlphabet, MaxEqTail)}

EqOthers ==
    {h \o t : h \in {prefix, prefix \o <<97, 58>>},
              t \in StrUpTo(EqAlphabet, MaxEqTail)}

\* ':' '%' '.' '3' 'A' 'a' '~' and the bytes 0x00, 0xFF
SpecIDAlphabet == {58, 37, 46, 51, 65, 97, 126, 0, 255}

\* "", "a", "a3", "A"
Methods == {<<>>, <<97>>, <<97, 51>>, <<65>>}

DIDs ==
    {[Method |-> m, SpecID |-> i] :
        m \in Methods, i \in StrUpTo(SpecIDAlphabet, MaxSpecID)}

-----------------------------------------------------------------------------
(* State machine: a caller that applies the library to its arguments.      *)
(* s and o are string arguments, d is the DID value of the caller, idx an  *)
(* index argument, pc the call that returned last, ret what it returned.   *)

Ret0 ==
    [did |-> ZeroDID, u |-> ZeroURL, err |-> NilErr, v |-> 0, str |-> <<>>,
     eq |-> FALSE, msg |-> NoMsg]

\* d, err := Parse(s)
CallParse ==
    /\ pc = "start"
    /\ d' = Parse(s).did
    /\ ret' = [Ret0 EXCEPT !.did = Parse(s).did, !.err = Parse(s).err]
    /\ pc' = "Parse"
    /\ UNCHANGED <<s, o, idx, params, owner>>

\* u, err := ParseURL(s)
CallParseURL ==
    /\ pc = "start"
    /\ ret' = [Ret0 EXCEPT !.u = ParseURL(s).u, !.err = ParseURL(s).err]
    /\ pc' = "ParseURL"
    /\ UNCHANGED <<s, o, d, idx, params, owner>>

\* err.Error() on the error of the parser that returned last
CallError ==
    /\ pc \in {"Parse", "ParseURL"}
    /\ ~ret.err.nil
    /\ ret' = [ret EXCEPT !.msg = Error(ret.err)]
    /\ pc' = "Error"
    /\ UNCHANGED <<s, o, d, idx, params, owner>>

\* d.String(), of the initial d or of the d that Parse returned
CallString ==
    /\ \/ pc = "start"
       \/ pc = "Parse" /\ ret.err.nil
    /\ ret' = [Ret0 EXCEPT !.str = String(d)]
    /\ pc' = "String"
    /\ UNCHANGED <<s, o, d, idx, params, owner>>

\* Parse(d.String())
CallReparse ==
    /\ pc = "String"
    /\ ret' = [Ret0 EXCEPT !.did = Parse(ret.str).did,
                           !.err = Parse(ret.str).err,
                           !.str = ret.str]
    /\ pc' = "Reparse"
    /\ UNCHANGED <<s, o, d, idx, params, owner>>

\* parseHex(s, i) for an index i >= 0
CallParseHex ==
    /\ pc = "start"
    /\ \E i \in 0..(Len(s) + 1) :
          /\ idx' = i
          /\ ret' = [Ret0 EXCEPT !.v = parseHex(s, i).v,
                                 !.err = parseHex(s, i).err]
    /\ pc' = "parseHex"
    /\ UNCHANGED <<s, o, d, params, owner>>

\* d.EqualString(o) for the d that Parse returned
CallEqualString ==
    /\ pc = "Parse"
    /\ ret.err.nil
    /\ \E x \in EqOthers :
          /\ o' = x
          /\ ret' = [Ret0 EXCEPT !.eq = EqualString(d, x)]
    /\ pc' = "EqualString"
    /\ UNCHANGED <<s, d, idx, params, owner>>

\* Equal(s, o)
CallEqual ==
    /\ pc = "start"
    /\ \E x \in EqOthers :
          /\ o' = x
          /\ ret' = [Ret0 EXCEPT !.eq = Equal(s, x)]
    /\ pc' = "Equal"
    /\ UNCHANGED <<s, d, idx, params, owner>>

\* d.EqualString(d.String())
CallEqualStringSelf ==
    /\ pc = "String"
    /\ o' = ret.str
    /\ ret' = [Ret0 EXCEPT !.eq = EqualString(d, ret.str), !.str = ret.str]
    /\ pc' = "EqualString"
    /\ UNCHANGED <<s, d, idx, params, owner>>

\* parsers, error text and the serialization round trip on one input
Init ==
    /\ s \in Inputs
    /\ o = <<>>
    /\ d = ZeroDID
    /\ idx = 0
    /\ pc = "start"
    /\ ret = Ret0
    /\ params = NoParams
    /\ owner = ZeroAddress

Next ==
    \/ CallParse
    \/ CallParseURL
    \/ CallError
    \/ CallString
    \/ CallReparse

Spec == Init /\ [][Next]_vars

\* parseHex on every index of an input
InitHex ==
    /\ s \in HexInputs
    /\ o = <<>>
    /\ d = ZeroDID
    /\ idx = 0
    /\ pc = "start"
    /\ ret = Ret0
    /\ params = NoParams
    /\ owner = ZeroAddress

NextHex == CallParseHex

SpecHex == InitHex /\ [][NextHex]_vars

\* comparison of a parsed DID with a second string
InitEq ==
    /\ s \in EqInputs
    /\ o = <<>>
    /\ d = ZeroDID
    /\ idx = 0
    /\ pc = "start"
    /\ ret = Ret0
    /\ params = NoParams
    /\ owner = ZeroAddress

NextEq ==
    \/ CallParse
    \/ CallEqualString
    \/ CallEqual

SpecEq == InitEq /\ [][NextEq]_vars

\* serialization of DID values and comparison with their own serialization
InitStr ==
    /\ s = <<>>
    /\ o = <<>>
    /\ d \in DIDs
    /\ idx = 0
    /\ pc = "start"
    /\ ret = Ret0
    /\ params = NoParams
    /\ owner = ZeroAddress

NextStr ==
    \/ CallString
    \/ CallEqualStringSelf

SpecStr == InitStr /\ [][NextStr]_vars

-----------------------------------------------------------------------------
(* Reference definitions of the properties, written from the grammar       *)

RefMethodChar == (48..57) \cup (97..122)

RefIdchar == (48..57) \cup (65..90) \cup (97..122) \cup {46, 45, 95}

\* value of a hex digit in either case, -1 otherwise
RefHex(c) ==
    IF c \in 48..57 THEN c - 48
    ELSE IF c \in 65..70 THEN c - 55
    ELSE IF c \in 97..102 THEN c - 87
    ELSE -1

RefUpperHex == <<48, 49, 50, 51, 52, 53, 54, 55, 56, 57, 65, 66, 67, 68, 69, 70>>

RefValidMethod(m) ==
    m # <<>> /\ \A k \in 1..Len(m) : m[k] \in RefMethodChar

\* t with every %HH replaced by its octet, every other byte copied
RECURSIVE RefDecode(_)
RefDecode(t) ==
    IF t = <<>> THEN <<>>
    ELSE IF Head(t) = 37 /\ Len(t) >= 3
    THEN <<16 * RefHex(t[2]) + RefHex(t[3])>>
            \o RefDecode(SubSeq(t, 4, Len(t)))
    ELSE <<Head(t)>> \o RefDecode(Tail(t))

\* t with every byte outside idchar written as %HH in upper-case hex
RECURSIVE RefEncode(_)
RefEncode(t) ==
    IF t = <<>> THEN <<>>
    ELSE IF Head(t) \in RefIdchar THEN <<Head(t)>> \o RefEncode(Tail(t))
    ELSE <<37, RefUpperHex[(Head(t) \div 16) + 1],
               RefUpperHex[(Head(t) % 16) + 1]>> \o RefEncode(Tail(t))

\* t is a sequence of idchar bytes, ':' bytes and %HH escapes
RECURSIVE RefBody(_)
RefBody(t) ==
    IF t = <<>> THEN TRUE
    ELSE IF Head(t) \in RefIdchar \cup {58} THEN RefBody(Tail(t))
    ELSE IF Head(t) = 37
    THEN /\ Len(t) >= 3
         /\ RefHex(t[2]) >= 0
         /\ RefHex(t[3]) >= 0
         /\ RefBody(SubSeq(t, 4, Len(t)))
    ELSE FALSE

\* index of the ':' that ends the method of str = "did:" method ":" id,
\* or -1 when str has not that form with a valid method and a non-empty id
RefMethodEnd(str) ==
    IF /\ Len(str) >= 4
       /\ SubSeq(str, 1, 4) = <<100, 105, 100, 58>>
       /\ \E k \in 5..(Len(str) - 2) :
             At(str, k) = 58 /\ RefValidMethod(Slice(str, 4, k))
    THEN CHOOSE k \in 5..(Len(str) - 2) :
            At(str, k) = 58 /\ RefValidMethod(Slice(str, 4, k))
    ELSE -1

\* first index at which str leaves "did:"
RefDiverge(str) ==
    CHOOSE k \in 0..4 :
        /\ k = 4 \/ k >= Len(str) \/ At(str, k) # At(<<100, 105, 100, 58>>, k)
        /\ \A j \in 0..(k - 1) :
              j < Len(str) /\ At(str, j) = At(<<100, 105, 100, 58>>, j)

\* index of the first byte of str in set, or -1
RefFirst(str, set) ==
    IF \E k \in 1..Len(str) : str[k] \in set
    THEN (CHOOSE k \in 1..Len(str) :
            str[k] \in set /\ \A j \in 1..(k - 1) : str[j] \notin set) - 1
    ELSE -1

RefHasPrefix(str) ==
    Len(str) >= 4 /\ SubSeq(str, 1, 4) = <<100, 105, 100, 58>>

\* a ':' occurs before any '/', '?', '#' and str has no "did:" prefix
RefWrongScheme(str) ==
    /\ ~RefHasPrefix(str)
    /\ RefFirst(str, {58, 47, 63, 35}) >= 0
    /\ At(str, RefFirst(str, {58, 47, 63, 35})) = 58

-----------------------------------------------------------------------------
(* Claims                                                                  *)

\* C1: Parse(s) returns either a DID with a non-empty Method over 'a'-'z',
\* '0'-'9' and a non-empty SpecID (never the zero DID), or a SyntaxError with
\* S = s and 0 <= I <= len(s); ParseURL(s) returns either a URL or a
\* SyntaxError with S = s (the full input) and 0 <= I <= len(s).
C1_ParseTotality ==
    /\ pc = "Parse" =>
          IF ret.err.nil
          THEN /\ RefValidMethod(ret.did.Method)
               /\ ret.did.SpecID # <<>>
               /\ ret.did # ZeroDID
          ELSE /\ ret.err.S = s
               /\ ret.err.I \in 0..Len(s)
               /\ ret.did = ZeroDID
    /\ pc = "ParseURL" =>
          \/ ret.err.nil
          \/ ret.err.S = s /\ ret.err.I \in 0..Len(s)

\* C1 witness: ParseURL failed inside the DID that precedes a '/', '?', '#'
C1_Witness ==
    /\ pc = "ParseURL"
    /\ ~ret.err.nil
    /\ RefHasPrefix(s)
    /\ RefFirst(s, {47, 63, 35}) > ret.err.I

\* C2: on success Method is the bytes of s between "did:" and the next ':',
\* and SpecID is the rest of s with every %HH (either case) replaced by its
\* octet and every other byte copied in order.
C2_DecodedFields ==
    pc = "Parse" /\ ret.err.nil =>
        LET k == 4 + RefFirst(SubSeq(s, 5, Len(s)), {58})
        IN  /\ RefHasPrefix(s)
            /\ k >= 4
            /\ ret.did.Method = Slice(s, 4, k)
            /\ ret.did.SpecID = RefDecode(Slice(s, k + 1, Len(s)))

\* C2 witness: a literal ':' and a lower-case "%3a" both gave the octet 0x3A
C2_Witness ==
    /\ pc = "Parse"
    /\ ret.err.nil
    /\ s = <<100, 105, 100, 58, 97, 58, 58, 37, 51, 97>>
    /\ ret.did.SpecID = <<58, 58>>

\* C3: for every DID d returned by a successful Parse, Parse(d.String())
\* succeeds and returns d, and d.String() is a fixed point.
C3_RoundTrip ==
    pc = "Reparse" /\ d # ZeroDID =>
        /\ ret.err.nil
        /\ ret.did = d
        /\ String(ret.did) = ret.str

\* C3 witness: a parsed DID whose SpecID ends in ':' was serialized and
\* parsed again
C3_Witness ==
    /\ pc = "Reparse"
    /\ d # ZeroDID
    /\ d.SpecID[Len(d.SpecID)] = 58
    /\ Len(ret.str) > Len(s)

\* C4: d.EqualString(o) iff Parse(o) succeeds and returns d; Equal(s, o) iff
\* both strings parse to the same DID.
C4_EqualStringAgreement ==
    /\ pc = "EqualString" =>
          (ret.eq <=> (Parse(o).err.nil /\ Parse(o).did = d))
    /\ pc = "Equal" =>
          (ret.eq <=> /\ Parse(s).err.nil
                      /\ Parse(o).err.nil
                      /\ Parse(s).did = Parse(o).did)

\* C5: for every valid DID d, d.EqualString(d.String()) is true; the zero
\* DID serializes to the empty string.
C5_EqualStringOfString ==
    /\ (pc = "EqualString" /\ RefValidMethod(d.Method) /\ d.SpecID # <<>>)
          => ret.eq
    /\ (pc = "String" /\ d = ZeroDID) => ret.str = <<>>

\* C6: for s = "did:" method ":" id with a valid method and a non-empty id
\* made of idchar bytes, ':' bytes and %HH escapes: when the last byte of s
\* is ':' Parse fails with index len(s)-1, with or without escapes in id;
\* otherwise (inner ':' only, or a final %3A) Parse succeeds.
C6_TrailingColon ==
    pc = "Parse" /\ RefMethodEnd(s) >= 0 =>
        LET id == Slice(s, RefMethodEnd(s) + 1, Len(s))
        IN  /\ (id[Len(id)] = 58 /\ RefBody(SubSeq(id, 1, Len(id) - 1)))
                  => (~ret.err.nil /\ ret.err.I = Len(s) - 1)
            /\ (id[Len(id)] # 58 /\ RefBody(id)) => ret.err.nil

\* C6 witness: a trailing ':' after an escape was rejected at len(s)-1
C6_Witness ==
    /\ pc = "Parse"
    /\ RefMethodEnd(s) >= 0
    /\ s[Len(s)] = 58
    /\ 37 \in {s[k] : k \in 1..Len(s)}
    /\ RefBody(SubSeq(s, RefMethodEnd(s) + 2, Len(s) - 1))
    /\ ~ret.err.nil
    /\ ret.err.I = Len(s) - 1

\* C7 as stated: for s without "did:" prefix Parse fails at the first
\* position where s leaves "did:", except that when s contains a ':' the
\* index is that of the ':'.
C7_Original ==
    pc = "Parse" /\ ~RefHasPrefix(s) =>
        /\ ~ret.err.nil
        /\ ret.err.I = IF RefFirst(s, {58}) >= 0 THEN RefFirst(s, {58})
                       ELSE RefDiverge(s)

\* C7 amended: ... except that when the first of the bytes ':', '/', '?',
\* '#' in s is a ':' the index is that of this ':'.
C7_WrongSchemeIndex ==
    pc = "Parse" /\ ~RefHasPrefix(s) =>
        /\ ~ret.err.nil
        /\ ret.err.I = IF RefWrongScheme(s)
                       THEN RefFirst(s, {58, 47, 63, 35})
                       ELSE RefDiverge(s)

\* C7 witness: a ':' after a '/' did not move the index off the divergence
C7_Witness ==
    /\ pc = "Parse"
    /\ ~RefHasPrefix(s)
    /\ RefFirst(s, {58}) > RefFirst(s, {47, 63, 35})
    /\ RefFirst(s, {47, 63, 35}) >= 0
    /\ ret.err.I = RefDiverge(s)
    /\ ret.err.I # RefFirst(s, {58})

\* C8: for a non-empty input with a scheme other than "did" the text of the
\* error of Parse and ParseURL is `invalid DID "<input>": no "did:" scheme`;
\* in every other case with index < len(input) the description names the
\* offending byte and the position index+1.
C8_WrongSchemeMessage ==
    pc = "Error" /\ s # <<>> =>
        /\ RefWrongScheme(s) =>
              ret.msg = [fmt |-> "invalid DID %q: %s", S |-> s,
                         desc |-> "no \"did:\" scheme", args |-> <<>>]
        /\ (~RefWrongScheme(s) /\ ret.err.I < Len(s)) =>
              /\ ret.msg.desc = "illegal %q at byte # %d"
              /\ ret.msg.args = <<At(s, ret.err.I), ret.err.I + 1>>

\* C9 as stated: parseHex(s, i) returns 16*value(s[i]) + value(s[i+1]) when
\* both are hex digits, and otherwise fails with SyntaxError{s, i}.
C9_Original ==
    pc = "parseHex" =>
        IF /\ idx + 1 < Len(s)
           /\ RefHex(At(s, idx)) >= 0
           /\ RefHex(At(s, idx + 1)) >= 0
        THEN /\ ret.err.nil
             /\ ret.v = 16 * RefHex(At(s, idx)) + RefHex(At(s, idx + 1))
        ELSE ret.err = [nil |-> FALSE, S |-> s, I |-> idx]

\* C9 amended: ... otherwise fails with SyntaxError{s, i} when s[i] is
\* missing or not a hex digit, and with SyntaxError{s, i+1} when s[i] is a
\* hex digit and s[i+1] is missing or not a hex digit.
C9_ParseHex ==
    pc = "parseHex" =>
        IF /\ idx + 1 < Len(s)
           /\ RefHex(At(s, idx)) >= 0
           /\ RefHex(At(s, idx + 1)) >= 0
        THEN /\ ret.err.nil
             /\ ret.v = 16 * RefHex(At(s, idx)) + RefHex(At(s, idx + 1))
        ELSE ret.err =
                [nil |-> FALSE, S |-> s,
                 I |-> IF idx < Len(s) /\ RefHex(At(s, idx)) >= 0
                       THEN idx + 1 ELSE idx]

\* C9 witness: the second digit was not hex and the index is i+1
C9_Witness ==
    /\ pc = "parseHex"
    /\ idx + 1 < Len(s)
    /\ RefHex(At(s, idx)) >= 0
    /\ RefHex(At(s, idx + 1)) < 0
    /\ ret.err.I = idx + 1

\* C10: for every non-zero DID d, d.String() is "did:" Method ":" followed
\* by SpecID with every byte outside idchar (every ':' included) written as
\* '%' and two upper-case hex digits and every idchar byte written
\* literally; its length is 4 + len(Method) + 1 + len(SpecID) + 2 * escaped.
C10_CanonicalString ==
    pc = "String" /\ d # ZeroDID =>
        /\ ret.str = <<100, 105, 100, 58>> \o d.Method \o <<58>>
                        \o RefEncode(d.SpecID)
        /\ Len(ret.str) =
              4 + Len(d.Method) + 1 + Len(d.SpecID)
                + 2 * Cardinality({k \in 1..Len(d.SpecID) :
                                      d.SpecID[k] \notin RefIdchar})

\* C10 witness: a SpecID with ':', the byte 0xFF and an idchar serialized
C10_Witness ==
    /\ pc = "String"
    /\ d.SpecID = <<58, 255, 65>>
    /\ ret.str = <<100, 105, 100, 58>> \o d.Method
                    \o <<58, 37, 51, 65, 37, 70, 70, 65>>

-----------------------------------------------------------------------------
(* Normalizer / Equal for DID values and DID URLs                          *)

\* func (u *URL) IsRelative() bool
IsRelative(u) == u.DID.Method = <<>> /\ u.DID.SpecID = <<>>

\* case list of the method validation in DID.Equal
methodCharEqual == (ch.d0 .. ch.d9) \cup (ch.a .. ch.z)

\* func (d DID) Equal(o DID) bool
DID_Equal(did, other) ==
    IF did.Method = <<>> \/ did.SpecID = <<>> THEN FALSE
    ELSE IF \E k \in 0..(Len(did.Method) - 1) :
                At(did.Method, k) \notin methodCharEqual
    THEN FALSE
    ELSE other = did

\* both case lists of escapedWithLeadEqual (query or fragment bytes)
escapedChar ==
    unreserved \cup subDelims \cup {ch.colon, ch.at, ch.slash, ch.quest}

\* both case lists of pathEqual (path bytes)
pathEqualChar == unreserved \cup subDelims \cup {ch.colon, ch.at, ch.slash}

\* one switch of a comparison loop: the octet at the head of str and the
\* rest of str, or ok = FALSE for its "return false" cases
decodeHead(str, class) ==
    IF str[1] \in class
    THEN [ok |-> TRUE, c |-> str[1], esc |-> FALSE, rest |-> Tail(str)]
    ELSE IF str[1] = ch.pct
    THEN LET h == parseHex(str, 1)
         IN  IF ~h.err.nil
             THEN [ok |-> FALSE, c |-> 0, esc |-> FALSE, rest |-> <<>>]
             ELSE [ok |-> TRUE, c |-> h.v, esc |-> TRUE,
                   rest |-> Slice(str, 3, Len(str))]
    ELSE [ok |-> FALSE, c |-> 0, esc |-> FALSE, rest |-> <<>>]

\* the for loop of escapedWithLeadEqual
RECURSIVE escapedLoop(_, _)
escapedLoop(a, b) ==
    IF a = <<>> THEN b = <<>>
    ELSE IF b = <<>> THEN FALSE
    ELSE LET x == decodeHead(a, escapedChar)
             y == decodeHead(b, escapedChar)
         IN  IF ~x.ok THEN FALSE
             ELSE IF ~y.ok THEN FALSE
             ELSE IF x.c # y.c THEN FALSE
             ELSE escapedLoop(x.rest, y.rest)

escapedWithLeadEqual_raw(a, b, lead) == a = b

\* func escapedWithLeadEqual(a, b string, lead byte) bool
escapedWithLeadEqual(a, b, lead) ==
    IF a = b THEN TRUE
    ELSE IF a = <<>> \/ b = <<>> THEN FALSE
    ELSE IF a[1] # lead \/ b[1] # lead THEN FALSE
    ELSE escapedLoop(Tail(a), Tail(b))

\* the segments of str between its '/' bytes
RECURSIVE splitSlash(_, _)
splitSlash(str, cur) ==
    IF str = <<>> THEN <<cur>>
    ELSE IF Head(str) = ch.slash THEN <<cur>> \o splitSlash(Tail(str), <<>>)
    ELSE splitSlash(Tail(str), Append(cur, Head(str)))

\* path.Clean on a rooted path, by segment: empty and "." segments are
\* dropped, ".." drops the segment before it
RECURSIVE cleanSegments(_, _)
cleanSegments(segs, stack) ==
    IF segs = <<>> THEN stack
    ELSE IF Head(segs) = <<>> \/ Head(segs) = <<ch.dot>>
    THEN cleanSegments(Tail(segs), stack)
    ELSE IF Head(segs) = <<ch.dot, ch.dot>>
    THEN cleanSegments(Tail(segs),
                       IF stack = <<>> THEN stack
                       ELSE SubSeq(stack, 1, Len(stack) - 1))
    ELSE cleanSegments(Tail(segs), Append(stack, Head(segs)))

\* segments joined with '/'
RECURSIVE joinSlash(_)
joinSlash(segs) ==
    IF segs = <<>> THEN <<>>
    ELSE IF Len(segs) = 1 THEN Head(segs)
    ELSE Head(segs) \o <<ch.slash>> \o joinSlash(Tail(segs))

\* path.Join("/", a)[1:] of the standard library, for a non-empty a
joinRoot(a) == joinSlash(cleanSegments(splitSlash(a, <<>>), <<>>))

\* the for loop of pathEqual
RECURSIVE pathEqualLoop(_, _)
pathEqualLoop(a, b) ==
    IF a = <<>> THEN b = <<>>
    ELSE IF b = <<>> THEN FALSE
    ELSE LET x == decodeHead(a, pathEqualChar)
             y == decodeHead(b, pathEqualChar)
         IN  IF ~x.ok THEN FALSE
             ELSE IF ~y.ok THEN FALSE
             ELSE IF x.c # y.c
                     \/ (x.esc /\ x.c = ch.slash) # (y.esc /\ y.c = ch.slash)
             THEN FALSE
             ELSE pathEqualLoop(x.rest, y.rest)

\* func pathEqual(a, b string) bool
pathEqual(a, b) ==
    IF a = b THEN TRUE
    ELSE IF a = <<>> \/ b = <<>> THEN FALSE
    ELSE pathEqualLoop(joinRoot(a), joinRoot(b))

URL_Equal_fieldwise(u, other) ==
    /\ other.DID = u.DID
    /\ escapedWithLeadEqual(other.RawFragment, u.RawFragment, ch.hash)
    /\ escapedWithLeadEqual(other.RawQuery, u.RawQuery, ch.quest)
    /\ pathEqual(other.RawPath, u.RawPath)

\* func (u *URL) Equal(o *URL) bool
URL_Equal(u, other) ==
    /\ ~IsRelative(other)
    /\ DID_Equal(other.DID, u.DID)
    /\ escapedWithLeadEqual(other.RawFragment, u.RawFragment, ch.hash)
    /\ escapedWithLeadEqual(other.RawQuery, u.RawQuery, ch.quest)
    /\ pathEqual(other.RawPath, u.RawPath)

\* func (u *URL) EqualString(s string) bool
URL_EqualString(u, str) ==
    LET p == ParseURL(str) IN p.err.nil /\ URL_Equal(u, p.u)

-----------------------------------------------------------------------------
(* Serializer and accessors of DID URLs                                    *)

URL_String_noFragment(u) == String(u.DID) \o u.RawPath \o u.RawQuery

\* func (u *URL) String() string
URL_String(u) ==
    String(u.DID) \o u.RawPath \o u.RawQuery \o u.RawFragment

\* the first loop of PathWithEscape: the index of the first escape or '%'
\* byte, or len(s) when there is none
RECURSIVE firstMarked(_, _, _)
firstMarked(str, escape, i) ==
    IF i >= Len(str) THEN i
    ELSE IF At(str, i) = escape \/ At(str, i) = ch.pct THEN i
    ELSE firstMarked(str, escape, i + 1)

RECURSIVE pathWithEscapeLoop(_, _, _, _)
pathWithEscapeLoop_single(str, escape, i, b) ==
    IF i >= Len(str) THEN b
    ELSE IF At(str, i) = ch.pct
    THEN LET h == parseHex(str, i + 1)
         IN  IF ~h.err.nil
             THEN pathWithEscapeLoop(str, escape, i + 1,
                                     Append(b, At(str, i)))
             ELSE IF h.v = escape
             THEN pathWithEscapeLoop(str, escape, i + 3,
                                     b \o <<escape, escape>>)
             ELSE IF h.v = ch.slash
             THEN pathWithEscapeLoop(str, escape, i + 3,
                                     b \o <<escape, ch.slash>>)
             ELSE pathWithEscapeLoop(str, escape, i + 3, Append(b, h.v))
    ELSE pathWithEscapeLoop(str, escape, i + 1, Append(b, At(str, i)))

\* the second loop of PathWithEscape, at index i with builder b
pathWithEscapeLoop(str, escape, i, b) ==
    IF i >= Len(str) THEN b
    ELSE IF At(str, i) = ch.pct
    THEN LET h == parseHex(str, i + 1)
         IN  IF ~h.err.nil
             THEN pathWithEscapeLoop(str, escape, i + 1,
                                     Append(b, At(str, i)))
             ELSE IF h.v = escape
             THEN pathWithEscapeLoop(str, escape, i + 3,
                                     b \o <<escape, escape>>)
             ELSE IF h.v = ch.slash
             THEN pathWithEscapeLoop(str, escape, i + 3,
                                     b \o <<escape, ch.slash>>)
             ELSE pathWithEscapeLoop(str, escape, i + 3, Append(b, h.v))
    ELSE IF At(str, i) = escape
    THEN pathWithEscapeLoop(str, escape, i + 1, b \o <<escape, escape>>)
    ELSE pathWithEscapeLoop(str, escape, i + 1, Append(b, At(str, i)))

PathWithEscape_dropPrefix(u, escape) ==
    LET i == firstMarked(u.RawPath, escape, 0)
    IN  IF i >= Len(u.RawPath) THEN u.RawPath
        ELSE pathWithEscapeLoop(u.RawPath, escape, i, <<>>)

\* func (u *URL) PathWithEscape(escape byte) string
PathWithEscape(u, escape) ==
    LET i == firstMarked(u.RawPath, escape, 0)
    IN  IF i >= Len(u.RawPath) THEN u.RawPath
        ELSE pathWithEscapeLoop(u.RawPath, escape, i,
                                Slice(u.RawPath, 0, i))

-----------------------------------------------------------------------------
(* DID URLs: one input parsed, serialized and parsed again                 *)

\* longest tail appended to a head of URLHeads
MaxURLTail == 4

\* '/', '?', '#', '%', '3', 'A', ':' and the illegal ' '
URLAlphabet == {47, 63, 35, 37, 51, 65, 58, 32}

\* no DID (a relative reference) and "did:a:b"
URLHeads == {<<>>, prefix \o <<97, 58, 98>>}

URLInputs == {h \o t : h \in URLHeads, t \in StrUpTo(URLAlphabet, MaxURLTail)}

\* a result record that also holds a second URL w
withOther(r, w, err) ==
    [did |-> r.did, u |-> r.u, err |-> err, v |-> r.v, str |-> r.str,
     eq |-> r.eq, msg |-> r.msg, w |-> w]

\* got := u.String(), of the zero URL or of the URL parsed from s
CallURLString ==
    /\ pc = "start" \/ (pc = "ParseURL" /\ ret.err.nil)
    /\ pc' = "URL.String"
    /\ ret' = [ret EXCEPT !.str = URL_String(ret.u)]
    /\ UNCHANGED <<s, o, d, idx, params, owner>>

\* w, err := ParseURL(got)
CallReparseURL ==
    /\ pc = "URL.String"
    /\ pc' = "ReparseURL"
    /\ ret' = withOther(ret, ParseURL(ret.str).u, ParseURL(ret.str).err)
    /\ UNCHANGED <<s, o, d, idx, params, owner>>

InitURL ==
    /\ s \in URLInputs
    /\ o = <<>>
    /\ d = ZeroDID
    /\ idx = 0
    /\ pc = "start"
    /\ ret = Ret0
    /\ params = NoParams
    /\ owner = ZeroAddress

NextURL ==
    \/ CallParseURL
    \/ CallURLString
    \/ CallReparseURL

SpecURL == InitURL /\ [][NextURL]_vars

-----------------------------------------------------------------------------
(* Reference definitions for DID URLs                                      *)

\* RFC 3986 pchar without pct-encoded
RefPchar ==
    RefIdchar \cup {126} \cup {33, 36, 38, 39, 40, 41, 42, 43, 44, 59, 61}
        \cup {58, 64}

RefPathClass == RefPchar \cup {47}

RefQueryClass == RefPchar \cup {47, 63}

\* t is a sequence of bytes of class and %HH escapes
RECURSIVE RefWellFormed(_, _)
RefWellFormed(t, class) ==
    IF t = <<>> THEN TRUE
    ELSE IF Head(t) \in class THEN RefWellFormed(Tail(t), class)
    ELSE IF Head(t) = 37
    THEN /\ Len(t) >= 3
         /\ RefHex(t[2]) >= 0
         /\ RefHex(t[3]) >= 0
         /\ RefWellFormed(SubSeq(t, 4, Len(t)), class)
    ELSE FALSE

RefHas(t, c) == \E k \in 1..Len(t) : t[k] = c

\* str is path [ "?" query ] [ "#" fragment ] with well-formed components
RefRelativeRef(str) ==
    LET h == RefFirst(str, {35})
        front == IF h < 0 THEN str ELSE Slice(str, 0, h)
        frag == IF h < 0 THEN <<>> ELSE Slice(str, h + 1, Len(str))
        q == RefFirst(front, {63})
        path == IF q < 0 THEN front ELSE Slice(front, 0, q)
        query == IF q < 0 THEN <<>> ELSE Slice(front, q + 1, Len(front))
    IN  /\ RefWellFormed(path, RefPathClass)
        /\ RefWellFormed(query, RefQueryClass)
        /\ RefWellFormed(frag, RefQueryClass)

RefDIDString(did) ==
    IF did.Method = <<>> /\ did.SpecID = <<>> THEN <<>>
    ELSE <<100, 105, 100, 58>> \o did.Method \o <<58>>
            \o RefEncode(did.SpecID)

-----------------------------------------------------------------------------
(* Claims on DID URLs                                                      *)

\* C11: for every URL returned by ParseURL, RawQuery is empty or begins
\* with '?' and has no '#'; RawFragment is empty or begins with '#' and has
\* no further '#'; RawPath has neither '?' nor '#' and, when the URL is
\* absolute, is empty or begins with '/'; every byte of a component other
\* than its leading delimiter is in the component's class or part of a '%'
\* followed by two hex digits.
C11_ComponentInvariants ==
    pc = "ParseURL" /\ ret.err.nil =>
        LET u == ret.u
        IN  /\ \/ u.RawQuery = <<>>
               \/ /\ Head(u.RawQuery) = 63
                  /\ ~RefHas(u.RawQuery, 35)
                  /\ RefWellFormed(Tail(u.RawQuery), RefQueryClass)
            /\ \/ u.RawFragment = <<>>
               \/ /\ Head(u.RawFragment) = 35
                  /\ ~RefHas(Tail(u.RawFragment), 35)
                  /\ RefWellFormed(Tail(u.RawFragment), RefQueryClass)
            /\ ~RefHas(u.RawPath, 63)
            /\ ~RefHas(u.RawPath, 35)
            /\ RefWellFormed(u.RawPath, RefPathClass)
            /\ u.DID # ZeroDID =>
                  u.RawPath = <<>> \/ Head(u.RawPath) = 47

\* C11 witness: an absolute URL with a path, a query holding a '?' and a
\* fragment that is only its '#'
C11_Witness ==
    /\ pc = "ParseURL"
    /\ ret.err.nil
    /\ ret.u.DID # ZeroDID
    /\ ret.u.RawPath = <<47>>
    /\ ret.u.RawQuery = <<63, 63>>
    /\ ret.u.RawFragment = <<35>>

\* C12: for s without the "did:" prefix, a ':' before any '/', '?', '#'
\* makes ParseURL fail with I the index of the first ':'; a ':' only after
\* the first '/', '?' or '#' does not cause rejection: such an s parses
\* exactly when its components are well-formed; every URL returned for an
\* input without the prefix is relative.
C12_RelativeColon ==
    pc = "ParseURL" /\ ~RefHasPrefix(s) =>
        /\ RefWrongScheme(s) =>
              /\ ~ret.err.nil
              /\ ret.err.S = s
              /\ ret.err.I = RefFirst(s, {58})
        /\ ~RefWrongScheme(s) /\ s # <<>> =>
              (ret.err.nil <=> RefRelativeRef(s))
        /\ ret.err.nil =>
              ret.u.DID.Method = <<>> /\ ret.u.DID.SpecID = <<>>

\* C12 witness: a relative reference with a ':' after its first '/'
C12_Witness ==
    /\ pc = "ParseURL"
    /\ s = <<47, 97, 58, 51>>
    /\ ret.err.nil
    /\ ret.u = URL(ZeroDID, s, <<>>, <<>>)

\* C13: for s with the "did:" prefix and none of '/', '?', '#', ParseURL(s)
\* succeeds exactly when Parse(s) does; on success the URL holds the DID of
\* Parse(s) and empty raw components, on failure the two errors have the
\* same S and I. For every s, Parse(s) succeeding implies ParseURL(s)
\* succeeding.
C13_ParseAgreement ==
    pc = "ParseURL" =>
        LET p == Parse(s)
        IN  /\ RefHasPrefix(s) /\ RefFirst(s, {47, 63, 35}) < 0 =>
                  /\ ret.err.nil <=> p.err.nil
                  /\ ret.err.nil => ret.u = URL(p.did, <<>>, <<>>, <<>>)
                  /\ ~ret.err.nil =>
                        ret.err.S = p.err.S /\ ret.err.I = p.err.I
            /\ p.err.nil => ret.err.nil

\* C13 witness: a plain DID with a broken escape fails in both parsers
C13_Witness ==
    /\ pc = "ParseURL"
    /\ s = prefix \o <<97, 58, 51, 37, 51>>
    /\ ~ret.err.nil
    /\ ret.err = Parse(s).err
    /\ ret.err.I > 4

\* C18: u.String() is DID.String() followed by RawPath, RawQuery and
\* RawFragment unchanged; the zero URL serializes to the empty string; for
\* every URL u returned by ParseURL, ParseURL(u.String()) succeeds and
\* returns a URL equal to u in all four fields.
C18_URLStringRoundTrip ==
    /\ pc \in {"URL.String", "ReparseURL"} =>
          /\ ret.str = RefDIDString(ret.u.DID) \o ret.u.RawPath
                          \o ret.u.RawQuery \o ret.u.RawFragment
          /\ ret.u = ZeroURL => ret.str = <<>>
    /\ pc = "ReparseURL" /\ ret.u # ZeroURL =>
          /\ ret.err.nil
          /\ ret.w.DID = ret.u.DID
          /\ ret.w.RawPath = ret.u.RawPath
          /\ ret.w.RawQuery = ret.u.RawQuery
          /\ ret.w.RawFragment = ret.u.RawFragment

\* C18 witness: an absolute URL whose DID needs an escape, parsed again
C18_Witness ==
    /\ pc = "ReparseURL"
    /\ s = prefix \o <<97, 58, 98, 37, 51, 65, 47>>
    /\ ret.u.DID.SpecID = <<98, 58>>
    /\ ret.str = s
    /\ ret.w = ret.u

-----------------------------------------------------------------------------
(* Equality on operands that need not be well-formed                        *)

\* longest raw operand
MaxRaw == 3

\* '?', '#', '%', '4' and the illegal ' '
RawAlphabet == {63, 35, 37, 52, 32}

RawStrings == StrUpTo(RawAlphabet, MaxRaw)

\* the operand itself and every raw string of up to n bytes
RawOthers(x, n) == {x} \cup StrUpTo(RawAlphabet, n)

\* the zero DID, a valid DID, one with an upper-case method and one with an
\* empty SpecID
RawDIDs ==
    {ZeroDID,
     [Method |-> <<97>>, SpecID |-> <<98>>],
     [Method |-> <<65>>, SpecID |-> <<98>>],
     [Method |-> <<97>>, SpecID |-> <<>>]}

\* a URL literal whose raw fields are str cut at its first '?' and '#'
rawURL(did, str) ==
    LET h == IndexAny(str, {ch.hash})
        front == IF h < 0 THEN str ELSE Slice(str, 0, h)
        q == IndexAny(front, {ch.quest})
    IN  URL(did,
            IF q < 0 THEN front ELSE Slice(front, 0, q),
            IF q < 0 THEN <<>> ELSE Slice(front, q, Len(front)),
            IF h < 0 THEN <<>> ELSE Slice(str, h, Len(str)))

\* escapedWithLeadEqual(s, x, lead)
CallEscapedWithLeadEqual ==
    /\ pc = "start"
    /\ \E x \in RawOthers(s, MaxRaw - 1), lead \in {ch.quest, ch.hash} :
          /\ o' = x
          /\ idx' = lead
          /\ ret' = [Ret0 EXCEPT !.eq = escapedWithLeadEqual(s, x, lead)]
    /\ pc' = "escapedWithLeadEqual"
    /\ UNCHANGED <<s, d, params, owner>>

\* pathEqual(s, x)
CallPathEqual ==
    /\ pc = "start"
    /\ \E x \in RawOthers(s, MaxRaw - 1) :
          /\ o' = x
          /\ ret' = [Ret0 EXCEPT !.eq = pathEqual(s, x)]
    /\ pc' = "pathEqual"
    /\ UNCHANGED <<s, d, idx, params, owner>>

\* r.Equal(e) on DID values
CallDIDEqual ==
    /\ pc = "start"
    /\ \E r \in RawDIDs, e \in RawDIDs :
          /\ d' = r
          /\ ret' = [Ret0 EXCEPT !.did = e, !.eq = DID_Equal(r, e)]
    /\ pc' = "DID.Equal"
    /\ UNCHANGED <<s, o, idx, params, owner>>

\* u.Equal(w) on URL literals
CallURLEqual ==
    /\ pc = "start"
    /\ \E x \in RawOthers(s, MaxRaw - 2), r \in RawDIDs, e \in RawDIDs :
          /\ o' = x
          /\ d' = r
          /\ ret' = withOther([Ret0 EXCEPT
                                  !.u = rawURL(r, s),
                                  !.eq = URL_Equal(rawURL(r, s),
                                                   rawURL(e, x))],
                              rawURL(e, x), NilErr)
    /\ pc' = "URL.Equal"
    /\ UNCHANGED <<s, idx, params, owner>>

\* u.EqualString(s) for the u parsed from s
CallURLEqualStringSelf ==
    /\ pc = "ParseURL"
    /\ ret.err.nil
    /\ pc' = "URL.EqualString"
    /\ o' = s
    /\ ret' = withOther([ret EXCEPT !.eq = URL_EqualString(ret.u, s)],
                        ParseURL(s).u, ParseURL(s).err)
    /\ UNCHANGED <<s, d, idx, params, owner>>

InitRaw ==
    /\ s \in RawStrings
    /\ o = <<>>
    /\ d = ZeroDID
    /\ idx = 0
    /\ pc = "start"
    /\ ret = Ret0
    /\ params = NoParams
    /\ owner = ZeroAddress

NextRaw ==
    \/ CallEscapedWithLeadEqual
    \/ CallPathEqual
    \/ CallDIDEqual
    \/ CallURLEqual
    \/ CallParseURL
    \/ CallURLEqualStringSelf

SpecRaw == InitRaw /\ [][NextRaw]_vars

-----------------------------------------------------------------------------
(* Equality of two parsed DID URLs                                         *)

\* longest content of a query or fragment
MaxComp == 3

\* '%', '4', 'D', 'd': "%44" is 'D', "%4D" is "%4d"
CompAlphabet == {37, 52, 68, 100}

Contents == StrUpTo(CompAlphabet, MaxComp)

\* "did:a:b" followed by any query, by any fragment, by one of two
\* spellings of the query "D" and a fragment, or by the path "/"; and
\* "did:a:c"
EqURLInputs ==
    {prefix \o <<97, 58, 98>> \o t :
        t \in {<<>>}
            \cup {<<63>> \o c : c \in Contents}
            \cup {<<35>> \o c : c \in Contents}
            \cup {q \o f : q \in {<<63, 68>>, <<63, 37, 52, 52>>},
                           f \in {<<35>>, <<35, 68>>, <<35, 100>>,
                                  <<35, 37, 52, 52>>}}
            \cup {<<47>>, <<47, 63, 68>>, <<47, 35, 68>>}}
        \cup {prefix \o <<97, 58, 99>>}

\* u.EqualString(x) for the u parsed from s
CallURLEqualString ==
    /\ pc = "ParseURL"
    /\ ret.err.nil
    /\ \E x \in EqURLInputs :
          /\ o' = x
          /\ LET p == ParseURL(x)
             IN  ret' = withOther([ret EXCEPT
                                     !.eq = p.err.nil /\ URL_Equal(ret.u, p.u)],
                                  p.u, p.err)
    /\ pc' = "URL.EqualString"
    /\ UNCHANGED <<s, d, idx, params, owner>>

InitURLEq ==
    /\ s \in EqURLInputs
    /\ o = <<>>
    /\ d = ZeroDID
    /\ idx = 0
    /\ pc = "start"
    /\ ret = Ret0
    /\ params = NoParams
    /\ owner = ZeroAddress

NextURLEq ==
    \/ CallParseURL
    \/ CallURLEqualString

SpecURLEq == InitURLEq /\ [][NextURLEq]_vars

-----------------------------------------------------------------------------
(* Claims on URL equality                                                  *)

RefValidDID(did) == RefValidMethod(did.Method) /\ did.SpecID # <<>>

\* a raw query or fragment that is neither absent nor lead plus
\* well-formed content
RefMalformedComp(t, lead) ==
    t # <<>> /\ (Head(t) # lead \/ ~RefWellFormed(Tail(t), RefQueryClass))

RefMalformedURL(u) ==
    \/ u.DID # ZeroDID /\ ~RefValidDID(u.DID)
    \/ ~RefWellFormed(u.RawPath, RefPathClass)
    \/ RefMalformedComp(u.RawQuery, 63)
    \/ RefMalformedComp(u.RawFragment, 35)

\* both absent, or both present with the same decoded octets
RefSameComp(a, b) ==
    \/ a = <<>> /\ b = <<>>
    \/ a # <<>> /\ b # <<>> /\ RefDecode(Tail(a)) = RefDecode(Tail(b))

\* C14: if u or o is relative, u.Equal(o) is false, also when both are the
\* same relative URL; for a relative u parsed from s, u.EqualString(s) is
\* false.
C14_RelativeNeverEqual ==
    /\ pc = "URL.Equal" /\ (ret.u.DID = ZeroDID \/ ret.w.DID = ZeroDID) =>
          ~ret.eq
    /\ pc = "URL.EqualString" /\ ret.u.DID = ZeroDID => ~ret.eq

\* C14 witness: a relative URL compared with itself
C14_Witness ==
    /\ pc = "URL.Equal"
    /\ ret.u = URL(ZeroDID, <<>>, <<63, 52>>, <<35>>)
    /\ ret.w = ret.u
    /\ ~ret.eq

\* C15: for two parsed absolute URLs with equal DID and equal path,
\* URL.Equal is true exactly when the queries are both absent or both
\* present with identical decoded octets after '?', and likewise the
\* fragments; every parsed absolute URL equals itself.
C15_QueryFragmentEquality ==
    /\ pc = "URL.EqualString" /\ ret.err.nil /\ ret.u.DID # ZeroDID
          /\ ret.w.DID = ret.u.DID /\ ret.w.RawPath = ret.u.RawPath =>
          (ret.eq <=> /\ RefSameComp(ret.u.RawQuery, ret.w.RawQuery)
                      /\ RefSameComp(ret.u.RawFragment, ret.w.RawFragment))
    /\ pc = "URL.EqualString" /\ ret.u.DID # ZeroDID /\ o = s => ret.eq

\* C15 witness: an escaped query octet in lower-case hex equals the same
\* octet in upper-case hex
C15_Witness ==
    /\ pc = "URL.EqualString"
    /\ ret.u.RawQuery = <<63, 37, 52, 100>>
    /\ ret.w.RawQuery = <<63, 37, 52, 68>>
    /\ ret.u.RawFragment = ret.w.RawFragment
    /\ ret.eq

\* C17: DID.Equal, URL.Equal, escapedWithLeadEqual and pathEqual return
\* false whenever either operand is malformed, whether or not the two
\* operands are byte-identical.
C17_MalformedNeverEqual ==
    /\ pc = "escapedWithLeadEqual"
          /\ (RefMalformedComp(s, idx) \/ RefMalformedComp(o, idx)) =>
          ~ret.eq
    /\ pc = "pathEqual"
          /\ (~RefWellFormed(s, RefPathClass)
                \/ ~RefWellFormed(o, RefPathClass)) =>
          ~ret.eq
    /\ pc = "DID.Equal" /\ (~RefValidDID(d) \/ ~RefValidDID(ret.did)) =>
          ~ret.eq
    /\ pc = "URL.Equal"
          /\ (RefMalformedURL(ret.u) \/ RefMalformedURL(ret.w)) =>
          ~ret.eq

-----------------------------------------------------------------------------
(* pathEqual on pairs of well-formed raw paths                             *)

\* longest raw path; the path it is compared with is one byte shorter
MaxPath == 4

\* '/', '.', 'x', '%', '2', 'F'
PathAlphabet == {47, 46, 120, 37, 50, 70}

\* pathEqual(s, x) for every shorter or equal x
CallPathEqualPaths ==
    /\ pc = "start"
    /\ \E x \in {s} \cup StrUpTo(PathAlphabet, MaxPath - 1) :
          /\ o' = x
          /\ ret' = [Ret0 EXCEPT !.eq = pathEqual(s, x)]
    /\ pc' = "pathEqual"
    /\ UNCHANGED <<s, d, idx, params, owner>>

InitPath ==
    /\ s \in StrUpTo(PathAlphabet, MaxPath)
    /\ o = <<>>
    /\ d = ZeroDID
    /\ idx = 0
    /\ pc = "start"
    /\ ret = Ret0
    /\ params = NoParams
    /\ owner = ZeroAddress

NextPath == CallPathEqualPaths

SpecPath == InitPath /\ [][NextPath]_vars

\* the '/'-separated segments of t
RECURSIVE RefSegments(_, _)
RefSegments(t, cur) ==
    IF t = <<>> THEN <<cur>>
    ELSE IF Head(t) = 47 THEN <<cur>> \o RefSegments(Tail(t), <<>>)
    ELSE RefSegments(Tail(t), Append(cur, Head(t)))

\* RFC 3986 5.2.4 on the segments after the root: "." is removed, ".."
\* is removed with the segment before it, and either as the last segment
\* leaves a trailing '/'; every other segment, empty ones included, stays
RECURSIVE RefDotSegments(_, _)
RefDotSegments(segs, out) ==
    LET pop == IF out = <<>> THEN out ELSE SubSeq(out, 1, Len(out) - 1)
    IN  IF segs = <<>> THEN out
        ELSE IF Head(segs) = <<46>>
        THEN IF Len(segs) = 1 THEN Append(out, <<>>)
             ELSE RefDotSegments(Tail(segs), out)
        ELSE IF Head(segs) = <<46, 46>>
        THEN IF Len(segs) = 1 THEN Append(pop, <<>>)
             ELSE RefDotSegments(Tail(segs), pop)
        ELSE RefDotSegments(Tail(segs), Append(out, Head(segs)))

RECURSIVE RefJoin(_)
RefJoin(segs) ==
    IF segs = <<>> THEN <<>>
    ELSE IF Len(segs) = 1 THEN Head(segs)
    ELSE Head(segs) \o <<47>> \o RefJoin(Tail(segs))

\* remove-dot-segments of the '/'-rooted form of t, the root stripped
RefRemoveDots(t) ==
    LET rooted == IF t # <<>> /\ Head(t) = 47 THEN t ELSE <<47>> \o t
    IN  RefJoin(RefDotSegments(RefSegments(Tail(rooted), <<>>), <<>>))

\* the decoded octets of t, each paired with "was written as %2F";
\* a '%' that starts no escape stands for itself
RECURSIVE RefPairs(_)
RefPairs(t) ==
    IF t = <<>> THEN <<>>
    ELSE IF /\ Head(t) = 37
            /\ Len(t) >= 3
            /\ RefHex(t[2]) >= 0
            /\ RefHex(t[3]) >= 0
    THEN LET v == 16 * RefHex(t[2]) + RefHex(t[3])
         IN  <<<<v, v = 47>>>> \o RefPairs(SubSeq(t, 4, Len(t)))
    ELSE <<<<Head(t), FALSE>>>> \o RefPairs(Tail(t))

\* C16: for two well-formed raw paths, pathEqual is true exactly when,
\* after remove-dot-segments (RFC 3986 5.2.4, empty segments and a
\* trailing '/' kept) on the '/'-rooted form with the root stripped, they
\* decode to the same sequence of (octet, was-%2F) pairs.
C16_PathEqualDotSegments ==
    pc = "pathEqual" /\ s # <<>> /\ o # <<>>
        /\ RefWellFormed(s, RefPathClass) /\ RefWellFormed(o, RefPathClass) =>
        (ret.eq <=> RefPairs(RefRemoveDots(s)) = RefPairs(RefRemoveDots(o)))

-----------------------------------------------------------------------------
(* PathWithEscape on raw paths                                             *)

\* longest raw path given to PathWithEscape
MaxEscPath == 4

\* '/', '%', '2', 'F', 'f', '5', 'C' and '\': "%2F" and "%2f" are '/',
\* "%5C" is '\', "%25" is '%'
EscAlphabet == {47, 37, 50, 70, 102, 53, 67, 92}

\* the escape bytes '\', '%', '/' and '2'
Escapes == {92, 37, 47, 50}

\* u := URL{RawPath: s}; got := u.PathWithEscape(e)
CallPathWithEscape ==
    /\ pc = "start"
    /\ \E e \in Escapes :
          /\ idx' = e
          /\ ret' = [Ret0 EXCEPT
                        !.u = URL(ZeroDID, s, <<>>, <<>>),
                        !.str = PathWithEscape(URL(ZeroDID, s, <<>>, <<>>),
                                               e)]
    /\ pc' = "PathWithEscape"
    /\ UNCHANGED <<s, o, d, params, owner>>

InitEsc ==
    /\ s \in StrUpTo(EscAlphabet, MaxEscPath)
    /\ o = <<>>
    /\ d = ZeroDID
    /\ idx = 0
    /\ pc = "start"
    /\ ret = Ret0
    /\ params = NoParams
    /\ owner = ZeroAddress

NextEsc == CallPathWithEscape

SpecEsc == InitEsc /\ [][NextEsc]_vars

\* t rewritten by the rules of PathWithEscape in the order they are
\* stated: a literal '/' stays, %2F becomes e '/', e (escaped or literal)
\* becomes e e, another valid escape becomes its octet, a '%' that starts
\* no escape stays
RECURSIVE RefMark(_, _)
RefMark(t, e) ==
    IF t = <<>> THEN <<>>
    ELSE IF Head(t) = 47 THEN <<47>> \o RefMark(Tail(t), e)
    ELSE IF /\ Head(t) = 37
            /\ Len(t) >= 3
            /\ RefHex(t[2]) >= 0
            /\ RefHex(t[3]) >= 0
    THEN LET v == 16 * RefHex(t[2]) + RefHex(t[3])
         IN  (IF v = 47 THEN <<e, 47>>
              ELSE IF v = e THEN <<e, e>>
              ELSE <<v>>) \o RefMark(SubSeq(t, 4, Len(t)), e)
    ELSE IF Head(t) = 37 THEN <<37>> \o RefMark(Tail(t), e)
    ELSE IF Head(t) = e THEN <<e, e>> \o RefMark(Tail(t), e)
    ELSE <<Head(t)>> \o RefMark(Tail(t), e)

\* out read left to right: e e is the octet e, e '/' is an escaped '/',
\* any other byte is itself
RECURSIVE RefUnmark(_, _)
RefUnmark(out, e) ==
    IF out = <<>> THEN <<>>
    ELSE IF Len(out) >= 2 /\ out[1] = e /\ out[2] = e
    THEN <<<<e, FALSE>>>> \o RefUnmark(SubSeq(out, 3, Len(out)), e)
    ELSE IF Len(out) >= 2 /\ out[1] = e /\ out[2] = 47
    THEN <<<<47, TRUE>>>> \o RefUnmark(SubSeq(out, 3, Len(out)), e)
    ELSE <<<<Head(out), FALSE>>>> \o RefUnmark(Tail(out), e)

\* the octets of a sequence of pairs
RefOctets(ps) == [k \in 1..Len(ps) |-> ps[k][1]]

\* every '%' of t is followed by two hex digits
RefEscapesValid(t) == RefWellFormed(t, (0..255) \ {37})

\* C19 as stated, for every escape byte: the output follows the rules and
\* tells a literal '/' from %2F.
C19_Original ==
    pc = "PathWithEscape" =>
        /\ ret.str = RefMark(s, idx)
        /\ RefUnmark(ret.str, idx) = RefPairs(s)

\* C19: for every escape byte e other than '/', PathWithEscape(e) writes
\* a literal '/' as '/', %2F as e '/', e (percent-encoded, or literal unless
\* e is '%') as e e, any other valid escape as its octet and a '%' that
\* starts no escape verbatim; when moreover e is not '%' or every '%' starts
\* an escape, reading the output back tells each literal '/' from each %2F.
C19_SeparatorMarking ==
    pc = "PathWithEscape" /\ idx # 47 =>
        /\ ret.str = RefMark(s, idx)
        /\ idx # 37 \/ RefEscapesValid(s) =>
              RefUnmark(ret.str, idx) = RefPairs(s)

\* C19 witness: with escape '\', "/%2F" becomes "/\/"
C19_Witness ==
    /\ pc = "PathWithEscape"
    /\ idx = 92
    /\ s = <<47, 37, 50, 70>>
    /\ ret.str = <<47, 92, 47>>

\* C20: for every escape byte e and raw path whose every '%' is followed by
\* two hex digits, replacing left to right each e e by e and each e '/' by
\* '/' in PathWithEscape(e) gives the percent-decoded raw path.
C20_LosslessDecode ==
    pc = "PathWithEscape" /\ RefEscapesValid(s) =>
        RefOctets(RefUnmark(ret.str, idx)) = RefDecode(s)

\* C20 witness: with escape '/', "%2F/" becomes "////" and reads back "//"
C20_Witness ==
    /\ pc = "PathWithEscape"
    /\ idx = 47
    /\ s = <<37, 50, 70, 47>>
    /\ ret.str = <<47, 47, 47, 47>>
    /\ RefOctets(RefUnmark(ret.str, idx)) = <<47, 47>>

-----------------------------------------------------------------------------
(* Accessors: path segments, query and fragment                            *)

\* the for loop of bestEffortDecode: str is what is left, b the builder
RECURSIVE bestEffortLoop(_, _)
bestEffortLoop(str, b) ==
    LET i == IndexAny(str, {ch.pct})
    IN  IF i < 0 THEN b \o str
        ELSE LET h == parseHex(str, i + 1)
             IN  IF ~h.err.nil
                 THEN bestEffortLoop(Slice(str, i + 1, Len(str)),
                                     b \o Slice(str, 0, i + 1))
                 ELSE bestEffortLoop(Slice(str, i + 3, Len(str)),
                                     Append(b \o Slice(str, 0, i), h.v))

\* func bestEffortDecode(s string) string
bestEffortDecode(str) ==
    IF IndexAny(str, {ch.pct}) < 0 THEN str
    ELSE bestEffortLoop(str, <<>>)

\* strings.TrimPrefix(str, "/")
trimSlash(str) ==
    IF str # <<>> /\ Head(str) = ch.slash THEN Tail(str) ELSE str

\* the loop of PathSegments and its "apply the last segment"
RECURSIVE pathSegmentsLoop(_, _)
pathSegmentsLoop(str, segs) ==
    LET i == IndexAny(str, {ch.slash})
    IN  IF i < 0
        THEN IF str # <<>> THEN Append(segs, bestEffortDecode(str))
             ELSE segs
        ELSE pathSegmentsLoop(Slice(str, i + 1, Len(str)),
                              Append(segs,
                                     bestEffortDecode(Slice(str, 0, i))))

PathSegments_noTrim(u) ==
    IF u.RawPath = <<>> THEN [isNil |-> TRUE, segs |-> <<>>]
    ELSE [isNil |-> FALSE, segs |-> pathSegmentsLoop(u.RawPath, <<>>)]

\* func (u *URL) PathSegments() []string; isNil tells a nil slice from an
\* empty one
PathSegments(u) ==
    IF u.RawPath = <<>> THEN [isNil |-> TRUE, segs |-> <<>>]
    ELSE [isNil |-> FALSE,
          segs |-> pathSegmentsLoop(trimSlash(u.RawPath), <<>>)]

\* the bytes url.PathEscape leaves as they are: RFC 3986 unreserved, and
\* of the reserved bytes the ones the standard library keeps in a path
\* segment, '$', '&', '+', ':', '=', '@'
pathEscapeKeep == unreserved \cup {36, 38, 43, ch.colon, 61, ch.at}

upperhex_lower ==
    <<48, 49, 50, 51, 52, 53, 54, 55, 56, 57, 97, 98, 99, 100, 101, 102>>

\* the digits "0123456789ABCDEF" of url.PathEscape
upperhex ==
    <<48, 49, 50, 51, 52, 53, 54, 55, 56, 57, 65, 66, 67, 68, 69, 70>>

\* url.PathEscape(str) of the standard library
RECURSIVE PathEscape(_)
PathEscape(str) ==
    IF str = <<>> THEN <<>>
    ELSE (IF Head(str) \in pathEscapeKeep THEN <<Head(str)>>
          ELSE <<ch.pct, upperhex[(Head(str) \div 16) + 1],
                 upperhex[(Head(str) % 16) + 1]>>)
            \o PathEscape(Tail(str))

\* the range loop of SetPathSegments
RECURSIVE writeSegments(_)
writeSegments(segs) ==
    IF segs = <<>> THEN <<>>
    ELSE <<ch.slash>> \o PathEscape(Head(segs)) \o writeSegments(Tail(segs))

SetPathSegments_noTrailing(u, segs) ==
    IF Len(segs) = 0 THEN [u EXCEPT !.RawPath = <<>>]
    ELSE [u EXCEPT !.RawPath = writeSegments(segs)]

\* func (u *URL) SetPathSegments(segs ...string): the receiver afterwards
SetPathSegments(u, segs) ==
    IF Len(segs) = 0 THEN [u EXCEPT !.RawPath = <<>>]
    ELSE [u EXCEPT !.RawPath =
              writeSegments(segs)
                \o (IF segs[Len(segs)] = <<>> THEN <<ch.slash>> ELSE <<>>)]

encodeChar_pct ==
    unreserved \cup subDelims
        \cup {ch.colon, ch.at, ch.slash, ch.quest, ch.pct}

\* case list of encodeWithLead: the bytes written without escape
encodeChar ==
    unreserved \cup subDelims \cup {ch.colon, ch.at, ch.slash, ch.quest}

\* the for loop of encodeWithLead
RECURSIVE encodeLoop(_)
encodeLoop(str) ==
    IF str = <<>> THEN <<>>
    ELSE (IF Head(str) \in encodeChar THEN <<Head(str)>>
          ELSE <<ch.pct, hexTable[(Head(str) \div 16) + 1],
                 hexTable[(Head(str) % 16) + 1]>>)
            \o encodeLoop(Tail(str))

\* func encodeWithLead(s string, lead byte) string
encodeWithLead(str, lead) == <<lead>> \o encodeLoop(str)

\* func (u *URL) Query() string
Query(u) ==
    IF u.RawQuery = <<>> \/ At(u.RawQuery, 0) # ch.quest THEN <<>>
    ELSE bestEffortDecode(Slice(u.RawQuery, 1, Len(u.RawQuery)))

\* func (u *URL) SetQuery(s string): the receiver afterwards
SetQuery(u, str) == [u EXCEPT !.RawQuery = encodeWithLead(str, ch.quest)]

\* func (u *URL) Fragment() string
Fragment(u) ==
    IF u.RawFragment = <<>> \/ At(u.RawFragment, 0) # ch.hash THEN <<>>
    ELSE bestEffortDecode(Slice(u.RawFragment, 1, Len(u.RawFragment)))

\* func (u *URL) SetFragment(s string): the receiver afterwards
SetFragment(u, str) ==
    [u EXCEPT !.RawFragment = encodeWithLead(str, ch.hash)]

-----------------------------------------------------------------------------
(* Accessors driven on URL values                                          *)

\* the results of an accessor call: segs and isNil of PathSegments, list
\* the segments last given to SetPathSegments, was the URL before a setter
Ret1 ==
    [did |-> ZeroDID, u |-> ZeroURL, err |-> NilErr, v |-> 0, str |-> <<>>,
     eq |-> FALSE, msg |-> NoMsg, w |-> ZeroURL, segs |-> <<>>,
     isNil |-> FALSE, list |-> <<>>, was |-> ZeroURL]

\* a URL with every field set, as the state a setter starts from
FullURL ==
    URL([Method |-> <<97>>, SpecID |-> <<98>>], <<47, 120>>, <<63, 113>>,
        <<35, 102>>)

\* longest raw path given to PathSegments
MaxSegPath == 5

\* '/', '%', '2', 'F' and 'x': "%2F" is '/', "%x" and "%2" are malformed
SegAlphabet == {47, 37, 50, 70, 120}

\* got := (&URL{RawPath: s}).PathSegments()
CallPathSegments ==
    /\ pc = "start"
    /\ pc' = "PathSegments"
    /\ LET u == URL(ZeroDID, s, <<>>, <<>>)
           got == PathSegments(u)
       IN  ret' = [Ret1 EXCEPT !.u = u, !.segs = got.segs,
                               !.isNil = got.isNil]
    /\ UNCHANGED <<s, o, d, idx, params, owner>>

InitSeg ==
    /\ s \in StrUpTo(SegAlphabet, MaxSegPath)
    /\ o = <<>>
    /\ d = ZeroDID
    /\ idx = 0
    /\ pc = "start"
    /\ ret = Ret0
    /\ params = NoParams
    /\ owner = ZeroAddress

NextSeg == CallPathSegments

SpecSeg == InitSeg /\ [][NextSeg]_vars

\* longest segment s; the segment o is two bytes shorter
MaxSeg == 3

\* '/', '%', '4', ':' and the byte 0xFF
SetAlphabet == {47, 37, 52, 58, 255}

\* the argument lists of SetPathSegments built from s and o
SegLists(a, b) == {<<>>, <<a>>, <<a, b>>, <<b, a, b>>}

\* u.SetPathSegments(segs...) on the zero URL or on FullURL
CallSetPathSegments ==
    /\ pc = "start"
    /\ pc' = "SetPathSegments"
    /\ \E u \in {ZeroURL, FullURL}, l \in SegLists(s, o) :
          ret' = [Ret1 EXCEPT !.was = u, !.list = l,
                              !.u = SetPathSegments(u, l)]
    /\ UNCHANGED <<s, o, d, idx, params, owner>>

\* got := u.PathSegments() after the setter
CallPathSegmentsAfter ==
    /\ pc = "SetPathSegments"
    /\ pc' = "PathSegments"
    /\ LET got == PathSegments(ret.u)
       IN  ret' = [ret EXCEPT !.segs = got.segs, !.isNil = got.isNil]
    /\ UNCHANGED <<s, o, d, idx, params, owner>>

InitSet ==
    /\ s \in StrUpTo(SetAlphabet, MaxSeg)
    /\ o \in StrUpTo(SetAlphabet, MaxSeg - 2)
    /\ d = ZeroDID
    /\ idx = 0
    /\ pc = "start"
    /\ ret = Ret0
    /\ params = NoParams
    /\ owner = ZeroAddress

NextSet ==
    \/ CallSetPathSegments
    \/ CallPathSegmentsAfter

SpecSet == InitSet /\ [][NextSet]_vars

\* longest string given to SetQuery and SetFragment, longest raw field
MaxQF == 4

\* '?', '#', '%', '4', 'A' and ' '
QFAlphabet == {63, 35, 37, 52, 65, 32}

\* u.SetQuery(s) on the zero URL or on FullURL
CallSetQuery ==
    /\ pc = "start"
    /\ pc' = "SetQuery"
    /\ \E u \in {ZeroURL, FullURL} :
          ret' = [Ret1 EXCEPT !.was = u, !.u = SetQuery(u, s)]
    /\ UNCHANGED <<s, o, d, idx, params, owner>>

\* u.SetFragment(s) on the zero URL or on FullURL
CallSetFragment ==
    /\ pc = "start"
    /\ pc' = "SetFragment"
    /\ \E u \in {ZeroURL, FullURL} :
          ret' = [Ret1 EXCEPT !.was = u, !.u = SetFragment(u, s)]
    /\ UNCHANGED <<s, o, d, idx, params, owner>>

\* got := u.Query() after SetQuery
CallQuery ==
    /\ pc = "SetQuery"
    /\ pc' = "Query"
    /\ ret' = [ret EXCEPT !.str = Query(ret.u)]
    /\ UNCHANGED <<s, o, d, idx, params, owner>>

\* got := u.Fragment() after SetFragment
CallFragment ==
    /\ pc = "SetFragment"
    /\ pc' = "Fragment"
    /\ ret' = [ret EXCEPT !.str = Fragment(ret.u)]
    /\ UNCHANGED <<s, o, d, idx, params, owner>>

\* got := (&URL{RawQuery: s}).Query()
CallQueryRaw ==
    /\ pc = "start"
    /\ pc' = "QueryRaw"
    /\ ret' = [Ret1 EXCEPT !.u = URL(ZeroDID, <<>>, s, <<>>),
                           !.str = Query(URL(ZeroDID, <<>>, s, <<>>))]
    /\ UNCHANGED <<s, o, d, idx, params, owner>>

\* got := (&URL{RawFragment: s}).Fragment()
CallFragmentRaw ==
    /\ pc = "start"
    /\ pc' = "FragmentRaw"
    /\ ret' = [Ret1 EXCEPT !.u = URL(ZeroDID, <<>>, <<>>, s),
                           !.str = Fragment(URL(ZeroDID, <<>>, <<>>, s))]
    /\ UNCHANGED <<s, o, d, idx, params, owner>>

InitQF ==
    /\ s \in StrUpTo(QFAlphabet, MaxQF)
    /\ o = <<>>
    /\ d = ZeroDID
    /\ idx = 0
    /\ pc = "start"
    /\ ret = Ret0
    /\ params = NoParams
    /\ owner = ZeroAddress

NextQF ==
    \/ CallSetQuery
    \/ CallSetFragment
    \/ CallQuery
    \/ CallFragment
    \/ CallQueryRaw
    \/ CallFragmentRaw

SpecQF == InitQF /\ [][NextQF]_vars

-----------------------------------------------------------------------------
(* Claims on the accessors                                                 *)

\* t percent-decoded on best effort
RefBestEffort(t) == RefOctets(RefPairs(t))

\* the segments PathSegments is to return for a non-empty raw path
RefPathSegments(t) ==
    LET rest == IF Head(t) = 47 THEN Tail(t) ELSE t
        parts == RefSegments(rest, <<>>)
        kept == IF parts[Len(parts)] = <<>>
                THEN SubSeq(parts, 1, Len(parts) - 1)
                ELSE parts
    IN  [k \in 1..Len(kept) |-> RefBestEffort(kept[k])]

\* t with every byte outside keep written as %HH in upper-case hex
RECURSIVE RefEscape(_, _)
RefEscape(t, keep) ==
    IF t = <<>> THEN <<>>
    ELSE (IF Head(t) \in keep THEN <<Head(t)>>
          ELSE <<37, RefUpperHex[(Head(t) \div 16) + 1],
                 RefUpperHex[(Head(t) % 16) + 1]>>)
            \o RefEscape(Tail(t), keep)

RefUnreserved == RefIdchar \cup {126}

\* '/' and the escaped segment, for each segment; one more '/' after an
\* empty last segment
RECURSIVE RefWriteSegments(_, _)
RefWriteSegments(l, keep) ==
    IF l = <<>> THEN <<>>
    ELSE <<47>> \o RefEscape(Head(l), keep)
            \o (IF Len(l) = 1 /\ Head(l) = <<>> THEN <<47>> ELSE <<>>)
            \o RefWriteSegments(Tail(l), keep)

\* C21: PathSegments returns nil for an empty RawPath and an empty non-nil
\* list for "/"; otherwise it removes one leading '/', splits on literal '/'
\* only, decodes each segment on best effort, drops one empty last segment
\* and keeps every other empty segment.
C21_PathSegments ==
    pc = "PathSegments" =>
        /\ s = <<>> => ret.isNil /\ ret.segs = <<>>
        /\ s = <<47>> => ~ret.isNil /\ ret.segs = <<>>
        /\ s # <<>> => ~ret.isNil /\ ret.segs = RefPathSegments(s)

\* C21 witness: "//%2F/" gives the segments "" and "/"
C21_Witness ==
    /\ pc = "PathSegments"
    /\ s = <<47, 47, 37, 50, 70>>
    /\ ret.segs = << <<>>, <<47>> >>

\* C22: for every list of one or more byte strings and from any URL state,
\* SetPathSegments followed by PathSegments returns the same segments in
\* the same order; with zero segments the path is cleared and PathSegments
\* returns a list of length 0.
C22_SegmentsRoundTrip ==
    /\ pc = "PathSegments" =>
          /\ Len(ret.segs) = Len(ret.list)
          /\ ret.segs = ret.list
    /\ pc \in {"SetPathSegments", "PathSegments"} /\ ret.list = <<>> =>
          ret.u.RawPath = <<>>

\* C22 witness: the segments "", "%4/" and "" come back
C22_Witness ==
    /\ pc = "PathSegments"
    /\ ret.list = << <<>>, <<37, 52, 47>>, <<>> >>
    /\ ret.segs = ret.list
    /\ ret.was = FullURL

\* C23 as stated: every byte outside the unreserved class is escaped.
C23_Original ==
    pc = "SetPathSegments" /\ ret.list # <<>> =>
        ret.u.RawPath = RefWriteSegments(ret.list, RefUnreserved)

\* C23: for a non-empty segment list RawPath becomes '/' and the encoded
\* segment for each segment, plus one '/' when the last segment is empty;
\* the encoding writes every byte as %HH in upper-case hex except the
\* unreserved bytes and '$', '&', '+', ':', '=', '@', which stay literal;
\* ParseURL accepts the result as a path.
C23_SetPathSegmentsEncoding ==
    pc = "SetPathSegments" /\ ret.list # <<>> =>
        /\ ret.u.RawPath =
              RefWriteSegments(ret.list,
                               RefUnreserved \cup {36, 38, 43, 58, 61, 64})
        /\ ParseURL(ret.u.RawPath).err.nil
        /\ ParseURL(ret.u.RawPath).u
              = URL(ZeroDID, ret.u.RawPath, <<>>, <<>>)

\* C23 witness: the segments "/:" and "" give "/%2F://"
C23_Witness ==
    /\ pc = "SetPathSegments"
    /\ ret.list = << <<47, 58>>, <<>> >>
    /\ ret.u.RawPath = <<47, 37, 50, 70, 58, 47, 47>>

\* C28: after SetQuery(s) RawQuery is '?' and s with every byte outside the
\* query class as upper-case %HH, Query() returns s, and DID, RawPath and
\* RawFragment are unchanged; symmetrically for SetFragment and Fragment
\* with '#'; Query() and Fragment() return "" when the raw field is empty
\* or does not start with its delimiter.
C28_QueryFragmentSetters ==
    /\ pc \in {"SetQuery", "Query"} =>
          /\ ret.u.RawQuery = <<63>> \o RefEscape(s, RefQueryClass)
          /\ ret.u.DID = ret.was.DID
          /\ ret.u.RawPath = ret.was.RawPath
          /\ ret.u.RawFragment = ret.was.RawFragment
    /\ pc \in {"SetFragment", "Fragment"} =>
          /\ ret.u.RawFragment = <<35>> \o RefEscape(s, RefQueryClass)
          /\ ret.u.DID = ret.was.DID
          /\ ret.u.RawPath = ret.was.RawPath
          /\ ret.u.RawQuery = ret.was.RawQuery
    /\ pc \in {"Query", "Fragment"} => ret.str = s
    /\ pc = "QueryRaw" /\ (s = <<>> \/ Head(s) # 63) => ret.str = <<>>
    /\ pc = "FragmentRaw" /\ (s = <<>> \/ Head(s) # 35) => ret.str = <<>>

\* C28 witness: SetQuery("%4A#") on a full URL and Query() back
C28_Witness ==
    /\ pc = "Query"
    /\ s = <<37, 52, 65, 35>>
    /\ ret.was = FullURL
    /\ ret.u.RawQuery = <<63, 37, 50, 53, 52, 65, 37, 50, 51>>
    /\ ret.str = s

-----------------------------------------------------------------------------
(* Version parameters                                                      *)

\* a time.Time: the instant as days since 0001-01-01 UTC, second of that
\* day and nanosecond, with the zone offset of its location in seconds
Time(day, sod, nsec, off) ==
    [day |-> day, sod |-> sod, nsec |-> nsec, off |-> off]

\* time.Time{}
ZeroTime == Time(0, 0, 0, 0)

\* t.IsZero(): the instant is January 1, year 1, 00:00:00 UTC
IsZero(t) == t.day = 0 /\ t.sod = 0 /\ t.nsec = 0

\* t.UTC(): the same instant with location UTC
timeUTC(t) == [t EXCEPT !.off = 0]

\* t.Round(time.Second): halfway values round up
Round(t) ==
    IF t.nsec * 2 < 1000000000 THEN [t EXCEPT !.nsec = 0]
    ELSE IF t.sod = 86399 THEN [t EXCEPT !.day = @ + 1, !.sod = 0, !.nsec = 0]
    ELSE [t EXCEPT !.sod = @ + 1, !.nsec = 0]

\* if t.Nanosecond() != 0 { t = t.Round(time.Second) }: halfway rounds up
timeRound(t) == IF t.nsec # 0 THEN Round(t) ELSE t

isLeap(year) == year % 4 = 0 /\ (year % 100 # 0 \/ year % 400 = 0)

\* days of the month in the year
daysIn(month, year) ==
    IF month = 2 THEN (IF isLeap(year) THEN 29 ELSE 28)
    ELSE IF month \in {4, 6, 9, 11} THEN 30 ELSE 31

\* days of the year before the month
RECURSIVE daysBefore(_, _)
daysBefore(month, year) ==
    IF month = 1 THEN 0
    ELSE daysBefore(month - 1, year) + daysIn(month - 1, year)

\* year, month and day of month of a day number, by 400-, 100-, 4- and
\* 1-year cycles
civil(day) ==
    LET n400 == day \div 146097
        r400 == day % 146097
        c100 == r400 \div 36524
        n100 == IF c100 > 3 THEN 3 ELSE c100
        r100 == r400 - 36524 * n100
        n4 == r100 \div 1461
        r4 == r100 % 1461
        c1 == r4 \div 365
        n1 == IF c1 > 3 THEN 3 ELSE c1
        yday == r4 - 365 * n1
        year == 400 * n400 + 100 * n100 + 4 * n4 + n1 + 1
        month == CHOOSE m \in 1..12 :
                    /\ daysBefore(m, year) <= yday
                    /\ yday < daysBefore(m, year) + daysIn(m, year)
    IN  [year |-> year, month |-> month,
         day |-> yday - daysBefore(month, year) + 1]

\* day number of a date
dayNumber(year, month, dom) ==
    LET y == year - 1
    IN  365 * y + (y \div 4) - (y \div 100) + (y \div 400)
            + daysBefore(month, year) + dom - 1

\* the decimal digits of n
RECURSIVE decimal(_)
decimal(n) ==
    IF n < 10 THEN <<48 + n>> ELSE decimal(n \div 10) \o <<48 + (n % 10)>>

\* n in decimal, zero-padded to at least w digits
RECURSIVE appendInt(_, _)
appendInt(n, w) ==
    IF Len(decimal(n)) >= w THEN decimal(n)
    ELSE <<48>> \o appendInt(n, w - 1)

\* t.Format(time.RFC3339) of a whole second in UTC
timeFormat(t) ==
    LET c == civil(t.day)
    IN  appendInt(c.year, 4) \o <<45>> \o appendInt(c.month, 2) \o <<45>>
            \o appendInt(c.day, 2) \o <<84>>
            \o appendInt(t.sod \div 3600, 2) \o <<58>>
            \o appendInt((t.sod % 3600) \div 60, 2) \o <<58>>
            \o appendInt(t.sod % 60, 2) \o <<90>>

isDigits(str) == \A k \in 1..Len(str) : str[k] \in 48..57

\* the number written by decimal digits
RECURSIVE atoi(_)
atoi(str) ==
    IF str = <<>> THEN 0
    ELSE atoi(SubSeq(str, 1, Len(str) - 1)) * 10 + (str[Len(str)] - 48)

\* the length of the run of digits at the start of str
RECURSIVE digitRun(_)
digitRun(str) ==
    IF str # <<>> /\ Head(str) \in 48..57 THEN 1 + digitRun(Tail(str))
    ELSE 0

\* digits of a fraction of a second as nanoseconds
fraction(str) ==
    LET nine == SubSeq(str \o <<48, 48, 48, 48, 48, 48, 48, 48, 48>>, 1, 9)
    IN  atoi(nine)

\* the zone at the end of an RFC 3339 time: "Z" or a numeric offset
parseZone(str) ==
    IF str = <<90>> THEN [ok |-> TRUE, off |-> 0]
    ELSE IF /\ Len(str) = 6
            /\ str[1] \in {43, 45}
            /\ str[4] = 58
            /\ isDigits(SubSeq(str, 2, 3))
            /\ isDigits(SubSeq(str, 5, 6))
            /\ atoi(SubSeq(str, 2, 3)) < 24
            /\ atoi(SubSeq(str, 5, 6)) < 60
    THEN [ok |-> TRUE,
          off |-> (IF str[1] = 45 THEN -1 ELSE 1)
                    * (atoi(SubSeq(str, 2, 3)) * 3600
                       + atoi(SubSeq(str, 5, 6)) * 60)]
    ELSE [ok |-> FALSE, off |-> 0]

\* time.Parse(time.RFC3339, str): ok and the time, in the zone written
timeParse(str) ==
    LET fail == [ok |-> FALSE, t |-> ZeroTime]
    IN  IF Len(str) < 20 THEN fail
        ELSE IF ~(/\ isDigits(SubSeq(str, 1, 4))
                  /\ str[5] = 45
                  /\ isDigits(SubSeq(str, 6, 7))
                  /\ str[8] = 45
                  /\ isDigits(SubSeq(str, 9, 10))
                  /\ str[11] = 84
                  /\ isDigits(SubSeq(str, 12, 13))
                  /\ str[14] = 58
                  /\ isDigits(SubSeq(str, 15, 16))
                  /\ str[17] = 58
                  /\ isDigits(SubSeq(str, 18, 19)))
        THEN fail
        ELSE
        LET year == atoi(SubSeq(str, 1, 4))
            month == atoi(SubSeq(str, 6, 7))
            dom == atoi(SubSeq(str, 9, 10))
            hour == atoi(SubSeq(str, 12, 13))
            min == atoi(SubSeq(str, 15, 16))
            sec == atoi(SubSeq(str, 18, 19))
            rest == SubSeq(str, 20, Len(str))
            frac == IF Len(rest) >= 2 /\ rest[1] = 46
                    THEN digitRun(Tail(rest)) ELSE 0
            nsec == IF frac > 0 THEN fraction(SubSeq(rest, 2, frac + 1))
                    ELSE 0
            zone == parseZone(IF frac > 0
                              THEN SubSeq(rest, frac + 2, Len(rest))
                              ELSE rest)
        IN  IF \/ month \notin 1..12
               \/ dom < 1
               \/ (month \in 1..12 /\ dom > daysIn(month, year))
               \/ hour > 23 \/ min > 59 \/ sec > 59
               \/ ~zone.ok
            THEN fail
            ELSE LET local == hour * 3600 + min * 60 + sec - zone.off
                     shift == IF local < 0 THEN -1
                              ELSE IF local > 86399 THEN 1 ELSE 0
                 IN  [ok |-> TRUE,
                      t |-> Time(dayNumber(year, month, dom) + shift,
                                 local - 86400 * shift, nsec, zone.off)]

\* the errors of VersionParams; cause is the error wrapped with %w
NoErr == [nil |-> TRUE, msg |-> "", cause |-> ""]
errVersionIDDupe ==
    [nil |-> FALSE, msg |-> "duplicate versionId in DID URL", cause |-> ""]
errVersionTimeDupe ==
    [nil |-> FALSE, msg |-> "duplicate versionTime in DID URL", cause |-> ""]
errVersionTime ==
    [nil |-> FALSE, msg |-> "versionTime in DID URL: %w",
     cause |-> "time.ParseError"]

\* VersionParams that looks at versionTime first
VersionParams_timeFirst(m) ==
    IF Len(m.versionTime) > 1
    THEN [id |-> <<>>, t |-> ZeroTime, err |-> errVersionTimeDupe]
    ELSE IF Len(m.versionId) > 1
    THEN [id |-> <<>>, t |-> ZeroTime, err |-> errVersionIDDupe]
    ELSE [id |-> IF Len(m.versionId) = 1 THEN m.versionId[1] ELSE <<>>,
          t |-> IF Len(m.versionTime) = 1
                THEN timeParse(m.versionTime[1]).t ELSE ZeroTime,
          err |-> IF Len(m.versionTime) = 1
                     /\ ~timeParse(m.versionTime[1]).ok
                  THEN errVersionTime ELSE NoErr]

\* VersionParams(params): id, time and error
VersionParams(m) ==
    IF Len(m.versionId) > 1
    THEN [id |-> <<>>, t |-> ZeroTime, err |-> errVersionIDDupe]
    ELSE
    LET str == IF Len(m.versionId) = 1 THEN m.versionId[1] ELSE <<>>
    IN  IF Len(m.versionTime) = 0
        THEN [id |-> str, t |-> ZeroTime, err |-> NoErr]
        ELSE IF Len(m.versionTime) = 1
        THEN LET p == timeParse(m.versionTime[1])
             IN  IF ~p.ok
                 THEN [id |-> <<>>, t |-> ZeroTime, err |-> errVersionTime]
                 ELSE [id |-> str, t |-> p.t, err |-> NoErr]
        ELSE [id |-> <<>>, t |-> ZeroTime, err |-> errVersionTimeDupe]

\* params.Set(key, value) and params.Del(key)
Set(m, key, value) == [m EXCEPT ![key] = <<value>>]
Del(m, key) == [m EXCEPT ![key] = <<>>]

\* SetVersionParams(params, str, t): the map afterwards
SetVersionParams(m, str, t) ==
    LET m1 == IF str # <<>> THEN Set(m, "versionId", str)
              ELSE Del(m, "versionId")
    IN  IF ~IsZero(t)
        THEN Set(m1, "versionTime", timeFormat(timeRound(timeUTC(t))))
        ELSE Del(m1, "versionTime")

\* most values of one key of the initial map
MaxValues == 2

\* values of "versionId": "" and "1"
IDValues == {<<>>, <<49>>}

\* "2021-05-10T17:00:00Z", from example7 of the tests
TextUTC ==
    <<50, 48, 50, 49, 45, 48, 53, 45, 49, 48, 84, 49, 55, 58, 48, 48, 58,
      48, 48, 90>>

\* "2021-05-10T17:00:00.5+01:00"
TextZone ==
    <<50, 48, 50, 49, 45, 48, 53, 45, 49, 48, 84, 49, 55, 58, 48, 48, 58,
      48, 48, 46, 53, 43, 48, 49, 58, 48, 48>>

\* "2021-05-10"
TextDate == <<50, 48, 50, 49, 45, 48, 53, 45, 49, 48>>

\* "2021-13-10T17:00:00Z"
TextMonth ==
    <<50, 48, 50, 49, 45, 49, 51, 45, 49, 48, 84, 49, 55, 58, 48, 48, 58,
      48, 48, 90>>

\* "10000-01-01T00:00:00Z"
TextYear ==
    <<49, 48, 48, 48, 48, 45, 48, 49, 45, 48, 49, 84, 48, 48, 58, 48, 48,
      58, 48, 48, 90>>

\* values of "versionTime"
TimeValues == {TextUTC, TextZone, TextDate, TextMonth, TextYear, <<>>}

\* the lists of at most n values from A
ValuesUpTo(A, n) == UNION {[1..k -> A] : k \in 0..n}

\* the ids given to SetVersionParams: "" and "2"
IDArgs == {<<>>, <<50>>}

\* 2021-05-10 and 9999-12-31 as day numbers
Day2021 == dayNumber(2021, 5, 10)
DayLast == dayNumber(9999, 12, 31)

\* the times given to SetVersionParams: the zero time in UTC and in
\* another zone, times on and off a whole second and in another zone, and
\* the last second of the year 9999
TimeArgs ==
    {ZeroTime, Time(0, 0, 0, 3600), Time(0, 0, 400000000, 0),
     Time(Day2021, 61200, 0, 0), Time(Day2021, 57600, 499999999, 0),
     Time(Day2021, 57600, 500000000, 3600),
     Time(DayLast, 86399, 0, 0), Time(DayLast, 86399, 500000000, 0)}

\* the results of the calls: pre the map before the call, argID and argT
\* the arguments of SetVersionParams
RetV ==
    [id |-> <<>>, t |-> ZeroTime, err |-> NoErr, pre |-> NoParams,
     argID |-> <<>>, argT |-> ZeroTime]

\* id, t, err := VersionParams(params)
CallVersionParams ==
    /\ pc = "start"
    /\ pc' = "VersionParams"
    /\ LET got == VersionParams(params)
       IN  ret' = [RetV EXCEPT !.id = got.id, !.t = got.t, !.err = got.err,
                               !.pre = params]
    /\ UNCHANGED <<s, o, d, idx, params, owner>>

\* SetVersionParams(params, id, t)
CallSetVersionParams ==
    /\ pc = "start"
    /\ pc' = "SetVersionParams"
    /\ \E id \in IDArgs, t \in TimeArgs :
          /\ params' = SetVersionParams(params, id, t)
          /\ ret' = [RetV EXCEPT !.pre = params, !.argID = id, !.argT = t]
    /\ UNCHANGED <<s, o, d, idx, owner>>

\* id, t, err := VersionParams(params) after SetVersionParams
CallVersionParamsAfter ==
    /\ pc = "SetVersionParams"
    /\ pc' = "VersionParamsAfter"
    /\ LET got == VersionParams(params)
       IN  ret' = [ret EXCEPT !.id = got.id, !.t = got.t, !.err = got.err]
    /\ UNCHANGED <<s, o, d, idx, params, owner>>

InitVer ==
    /\ s = <<>>
    /\ o = <<>>
    /\ d = ZeroDID
    /\ idx = 0
    /\ pc = "start"
    /\ ret = RetV
    /\ params \in [versionId : ValuesUpTo(IDValues, MaxValues),
                   versionTime : ValuesUpTo(TimeValues, MaxValues),
                   other : {<<>>, <<<<120>>>>}]
    /\ owner = ZeroAddress

NextVer ==
    \/ CallVersionParams
    \/ CallSetVersionParams
    \/ CallVersionParamsAfter

SpecVer == InitVer /\ [][NextVer]_vars

\* what time.Parse is to make of the values of TimeValues
RefParsed(str) ==
    IF str = TextUTC THEN [ok |-> TRUE, t |-> Time(737919, 61200, 0, 0)]
    ELSE IF str = TextZone
    THEN [ok |-> TRUE, t |-> Time(737919, 57600, 500000000, 3600)]
    ELSE [ok |-> FALSE, t |-> ZeroTime]

\* the RFC 3339 text of the times of TimeArgs in UTC, rounded to a second
RefFormatted(t) ==
    IF t = Time(0, 0, 400000000, 0)
    THEN <<48, 48, 48, 49, 45, 48, 49, 45, 48, 49, 84, 48, 48, 58, 48, 48,
           58, 48, 48, 90>>
    ELSE IF t = Time(737919, 61200, 0, 0) THEN TextUTC
    ELSE IF t = Time(737919, 57600, 499999999, 0)
    THEN <<50, 48, 50, 49, 45, 48, 53, 45, 49, 48, 84, 49, 54, 58, 48, 48,
           58, 48, 48, 90>>
    ELSE IF t = Time(737919, 57600, 500000000, 3600)
    THEN <<50, 48, 50, 49, 45, 48, 53, 45, 49, 48, 84, 49, 54, 58, 48, 48,
           58, 48, 49, 90>>
    ELSE IF t = Time(3652058, 86399, 0, 0)
    THEN <<57, 57, 57, 57, 45, 49, 50, 45, 51, 49, 84, 50, 51, 58, 53, 57,
           58, 53, 57, 90>>
    ELSE TextYear

\* the instant of the times of TimeArgs rounded to a second, in UTC
RefRounded(t) ==
    IF t = Time(0, 0, 400000000, 0) THEN ZeroTime
    ELSE IF t = Time(737919, 57600, 499999999, 0)
    THEN Time(737919, 57600, 0, 0)
    ELSE IF t = Time(737919, 57600, 500000000, 3600)
    THEN Time(737919, 57601, 0, 0)
    ELSE IF t = Time(3652058, 86399, 500000000, 0)
    THEN Time(3652059, 0, 0, 0)
    ELSE t

C25_SetThenGet ==
    /\ pc \in {"SetVersionParams", "VersionParamsAfter"} =>
          /\ params.versionId
                = (IF ret.argID = <<>> THEN <<>> ELSE <<ret.argID>>)
          /\ params.versionTime
                = (IF ret.argT.day = 0 /\ ret.argT.sod = 0
                      /\ ret.argT.nsec = 0
                   THEN <<>> ELSE <<RefFormatted(ret.argT)>>)
          /\ params.other = ret.pre.other
    /\ pc = "VersionParamsAfter" =>
          /\ ret.err.nil
          /\ ret.id = ret.argID
          /\ ret.t = [RefRounded(ret.argT) EXCEPT !.off = 0]

-----------------------------------------------------------------------------
(* JSON                                                                    *)

\* the digits json.Marshal writes in \u00xx
jsonHex == <<48, 49, 50, 51, 52, 53, 54, 55, 56, 57, 97, 98, 99, 100, 101, 102>>

\* json.Marshal of one byte of a string, with HTML escaping: '"' and '\'
\* behind a backslash, "\n", "\r", "\t", other control bytes and '<', '>',
\* '&' as \u00xx, a byte outside ASCII that is no UTF-8 as \ufffd
jsonEscape(c) ==
    IF c \in {34, 92} THEN <<92, c>>
    ELSE IF c = 10 THEN <<92, 110>>
    ELSE IF c = 13 THEN <<92, 114>>
    ELSE IF c = 9 THEN <<92, 116>>
    ELSE IF c < 32 \/ c \in {60, 62, 38}
    THEN <<92, 117, 48, 48, jsonHex[(c \div 16) + 1], jsonHex[(c % 16) + 1]>>
    ELSE IF c > 127 THEN <<92, 117, 102, 102, 102, 100>>
    ELSE <<c>>

RECURSIVE jsonEscapeLoop(_)
jsonEscapeLoop(str) ==
    IF str = <<>> THEN <<>>
    ELSE jsonEscape(Head(str)) \o jsonEscapeLoop(Tail(str))

\* json.Marshal(str) of a string
jsonMarshal(str) == <<34>> \o jsonEscapeLoop(str) \o <<34>>

\* the value of a hex digit, -1 for any other byte
jsonHexValue(c) ==
    IF c \in 48..57 THEN c - 48
    ELSE IF c \in 65..70 THEN c - 55
    ELSE IF c \in 97..102 THEN c - 87
    ELSE -1

\* the UTF-8 encoding of a code point below 0x10000; a surrogate half
\* becomes U+FFFD
utf8(cp) ==
    IF cp < 128 THEN <<cp>>
    ELSE IF cp < 2048 THEN <<192 + (cp \div 64), 128 + (cp % 64)>>
    ELSE IF cp \in 55296..57343 THEN <<239, 191, 189>>
    ELSE <<224 + (cp \div 4096), 128 + ((cp \div 64) % 64), 128 + (cp % 64)>>

\* the byte a two-character escape stands for, -1 when there is none
jsonSimple(c) ==
    IF c \in {34, 92, 47} THEN c
    ELSE IF c = 98 THEN 8
    ELSE IF c = 102 THEN 12
    ELSE IF c = 110 THEN 10
    ELSE IF c = 114 THEN 13
    ELSE IF c = 116 THEN 9
    ELSE -1

\* the content of a JSON string literal, given the text between its quotes
RECURSIVE unquoteLoop(_)
unquoteLoop(str) ==
    IF str = <<>> THEN [ok |-> TRUE, str |-> <<>>]
    ELSE IF Head(str) = 34 \/ Head(str) < 32
    THEN [ok |-> FALSE, str |-> <<>>]
    ELSE IF Head(str) # 92
    THEN LET r == unquoteLoop(Tail(str))
         IN  [ok |-> r.ok, str |-> IF r.ok THEN <<Head(str)>> \o r.str
                                    ELSE <<>>]
    ELSE IF Len(str) < 2 THEN [ok |-> FALSE, str |-> <<>>]
    ELSE IF str[2] = 117
    THEN IF /\ Len(str) >= 6
            /\ \A k \in 3..6 : jsonHexValue(str[k]) >= 0
         THEN LET cp == jsonHexValue(str[3]) * 4096
                        + jsonHexValue(str[4]) * 256
                        + jsonHexValue(str[5]) * 16 + jsonHexValue(str[6])
                  r == unquoteLoop(SubSeq(str, 7, Len(str)))
              IN  [ok |-> r.ok, str |-> IF r.ok THEN utf8(cp) \o r.str
                                         ELSE <<>>]
         ELSE [ok |-> FALSE, str |-> <<>>]
    ELSE IF jsonSimple(str[2]) < 0 THEN [ok |-> FALSE, str |-> <<>>]
    ELSE LET r == unquoteLoop(SubSeq(str, 3, Len(str)))
         IN  [ok |-> r.ok, str |-> IF r.ok THEN <<jsonSimple(str[2])>> \o r.str
                                    ELSE <<>>]

\* json.Unmarshal(bytes, &str) into a string: any text that is not one
\* string literal is an error
jsonUnmarshal(bytes) ==
    IF Len(bytes) >= 2 /\ bytes[1] = 34 /\ bytes[Len(bytes)] = 34
    THEN unquoteLoop(SubSeq(bytes, 2, Len(bytes) - 1))
    ELSE [ok |-> FALSE, str |-> <<>>]

\* the errors of UnmarshalJSON: the error of json.Unmarshal as it is, or
\* the SyntaxError of the parser wrapped with %w
NoJSONErr == [nil |-> TRUE, fmt |-> "", cause |-> NilErr]
jsonErr == [nil |-> FALSE, fmt |-> "json", cause |-> NilErr]
contentErr(err) ==
    [nil |-> FALSE, fmt |-> "JSON string content: %w", cause |-> err]

\* d.MarshalJSON()
DID_MarshalJSON(did) == jsonMarshal(String(did))

\* d.UnmarshalJSON(bytes) that copies the parse result before it looks at
\* the error
DID_UnmarshalJSON_copyFirst(did, bytes) ==
    LET j == jsonUnmarshal(bytes)
        p == Parse(j.str)
    IN  IF ~j.ok THEN [d |-> did, err |-> jsonErr]
        ELSE [d |-> p.did,
              err |-> IF p.err.nil THEN NoJSONErr ELSE contentErr(p.err)]

\* d.UnmarshalJSON(bytes): the receiver afterwards and the error
DID_UnmarshalJSON(did, bytes) ==
    LET j == jsonUnmarshal(bytes)
        p == Parse(j.str)
    IN  IF ~j.ok THEN [d |-> did, err |-> jsonErr]
        ELSE IF ~p.err.nil THEN [d |-> did, err |-> contentErr(p.err)]
        ELSE [d |-> p.did, err |-> NoJSONErr]

\* u.MarshalJSON()
URL_MarshalJSON(u) == jsonMarshal(URL_String(u))

\* the end of u.UnmarshalJSON: the copy "*u = *p" or the wrapped error
copyURL(u, p) ==
    IF ~p.err.nil THEN [u |-> u, err |-> contentErr(p.err)]
    ELSE [u |-> p.u, err |-> NoJSONErr]

\* u.UnmarshalJSON(bytes): the receiver afterwards and the error
URL_UnmarshalJSON(u, bytes) ==
    LET j == jsonUnmarshal(bytes)
    IN  IF ~j.ok THEN [u |-> u, err |-> jsonErr]
        ELSE copyURL(u, ParseURL(j.str))

\* longest tail of the content of a JSON string
MaxJSON == 3

\* '%', '3', 'A', '/', '&' and '"'
JSONAlphabet == {37, 51, 65, 47, 38, 34}

\* no DID and "did:a:"
JSONHeads == {<<>>, prefix \o <<97, 58>>}

JSONContents ==
    {h \o t : h \in JSONHeads, t \in StrUpTo(JSONAlphabet, MaxJSON)}

\* every byte as \u00XX
RECURSIVE escapeAll(_)
escapeAll(str) ==
    IF str = <<>> THEN <<>>
    ELSE <<92, 117, 48, 48, hexTable[(Head(str) \div 16) + 1],
           hexTable[(Head(str) % 16) + 1]>> \o escapeAll(Tail(str))

\* JSON texts for the content str: as json.Marshal writes it, between
\* quotes as it is, with every byte escaped, and without quotes
JSONTexts(str) ==
    {jsonMarshal(str), <<34>> \o str \o <<34>>,
     <<34>> \o escapeAll(str) \o <<34>>, str}

\* a DID the receiver holds before the call
FullDID == [Method |-> <<122>>, SpecID |-> <<122>>]

\* the results: txt the JSON text, jerr the error of UnmarshalJSON, wasd
\* and was the receiver before the call
RetJ ==
    [did |-> ZeroDID, u |-> ZeroURL, err |-> NilErr, v |-> 0, str |-> <<>>,
     eq |-> FALSE, msg |-> NoMsg, w |-> ZeroURL, txt |-> <<>>,
     jerr |-> NoJSONErr, wasd |-> ZeroDID, was |-> ZeroURL]

\* err := d.UnmarshalJSON(txt)
CallDIDUnmarshalJSON ==
    /\ pc = "start"
    /\ pc' = "DID.UnmarshalJSON"
    /\ \E txt \in JSONTexts(s) :
          LET r == DID_UnmarshalJSON(d, txt)
          IN  /\ d' = r.d
              /\ ret' = [RetJ EXCEPT !.txt = txt, !.jerr = r.err, !.wasd = d]
    /\ UNCHANGED <<s, o, idx, params, owner>>

\* err := u.UnmarshalJSON(txt) on the zero URL or on FullURL
CallURLUnmarshalJSON ==
    /\ pc = "start"
    /\ pc' = "URL.UnmarshalJSON"
    /\ \E txt \in JSONTexts(s), u \in {ZeroURL, FullURL} :
          \E r \in {URL_UnmarshalJSON(u, txt)} :
              ret' = [RetJ EXCEPT !.txt = txt, !.jerr = r.err, !.was = u,
                                  !.u = r.u]
    /\ UNCHANGED <<s, o, d, idx, params, owner>>

\* bytes, _ := d.MarshalJSON() of the DID just read
CallDIDMarshalJSON ==
    /\ pc = "DID.UnmarshalJSON"
    /\ ret.jerr.nil
    /\ pc' = "DID.MarshalJSON"
    /\ ret' = [ret EXCEPT !.str = DID_MarshalJSON(d)]
    /\ UNCHANGED <<s, o, d, idx, params, owner>>

\* err := got.UnmarshalJSON(bytes) into another DID
CallDIDUnmarshalBack ==
    /\ pc = "DID.MarshalJSON"
    /\ pc' = "DID.RoundTrip"
    /\ LET r == DID_UnmarshalJSON(FullDID, ret.str)
       IN  ret' = [ret EXCEPT !.did = r.d, !.jerr = r.err]
    /\ UNCHANGED <<s, o, d, idx, params, owner>>

\* bytes, _ := u.MarshalJSON() of the URL just read
CallURLMarshalJSON ==
    /\ pc = "URL.UnmarshalJSON"
    /\ ret.jerr.nil
    /\ pc' = "URL.MarshalJSON"
    /\ ret' = [ret EXCEPT !.str = URL_MarshalJSON(ret.u)]
    /\ UNCHANGED <<s, o, d, idx, params, owner>>

\* err := got.UnmarshalJSON(bytes) into another URL
CallURLUnmarshalBack ==
    /\ pc = "URL.MarshalJSON"
    /\ pc' = "URL.RoundTrip"
    /\ \E r \in {URL_UnmarshalJSON(FullURL, ret.str)} :
          ret' = [ret EXCEPT !.w = r.u, !.jerr = r.err]
    /\ UNCHANGED <<s, o, d, idx, params, owner>>

InitJSON ==
    /\ s \in JSONContents
    /\ o = <<>>
    /\ d \in {ZeroDID, FullDID}
    /\ idx = 0
    /\ pc = "start"
    /\ ret = RetJ
    /\ params = NoParams
    /\ owner = ZeroAddress

NextJSON ==
    \/ CallDIDUnmarshalJSON
    \/ CallURLUnmarshalJSON
    \/ CallDIDMarshalJSON
    \/ CallDIDUnmarshalBack
    \/ CallURLMarshalJSON
    \/ CallURLUnmarshalBack

SpecJSON == InitJSON /\ [][NextJSON]_vars

\* s as json.Marshal writes it: '"' behind a backslash and '&' as \u0026
RefJSONText ==
    LET piece(c) == IF c = 34 THEN <<92, 34>>
                    ELSE IF c = 38 THEN <<92, 117, 48, 48, 50, 54>>
                    ELSE <<c>>
        F[k \in 0..Len(s)] == IF k = 0 THEN <<>> ELSE F[k - 1] \o piece(s[k])
    IN  F[Len(s)]

\* txt is a JSON string literal whose content is s: s between quotes with
\* no byte that needs an escape, or one of the two escaped writings
RefStringOf(txt) ==
    \/ txt = <<34>> \o s \o <<34>> /\ \A k \in 1..Len(s) : s[k] # 34
    \/ txt = <<34>> \o escapeAll(s) \o <<34>>
    \/ txt = <<34>> \o RefJSONText \o <<34>>

\* C26: UnmarshalJSON of a JSON string whose content fails Parse/ParseURL
\* returns an error wrapping the SyntaxError with the prefix
\* "JSON string content:" and leaves the receiver as it was; of a content
\* that parses it overwrites every field of the receiver with the parse
\* result; Unmarshal(Marshal(v)) restores every parsed value v.
C26_UnmarshalAllOrNothing ==
    /\ pc = "DID.UnmarshalJSON" /\ RefStringOf(ret.txt) =>
          IF Parse(s).err.nil
          THEN ret.jerr.nil /\ d = Parse(s).did
          ELSE /\ ret.jerr.fmt = "JSON string content: %w"
               /\ ret.jerr.cause = Parse(s).err
               /\ ~ret.jerr.cause.nil
               /\ d = ret.wasd
    /\ pc = "URL.UnmarshalJSON" /\ RefStringOf(ret.txt) =>
          IF ParseURL(s).err.nil
          THEN ret.jerr.nil /\ ret.u = ParseURL(s).u
          ELSE /\ ret.jerr.fmt = "JSON string content: %w"
               /\ ret.jerr.cause = ParseURL(s).err
               /\ ~ret.jerr.cause.nil
               /\ ret.u = ret.was
    /\ pc = "DID.RoundTrip" => ret.jerr.nil /\ ret.did = d
    /\ pc = "URL.RoundTrip" => ret.jerr.nil /\ ret.w = ret.u

\* C26 witness: the text "/&3" read into a URL that had every field set,
\* written as "/\u00263" and read back
C26_Witness ==
    /\ pc = "URL.RoundTrip"
    /\ s = <<47, 38, 51>>
    /\ ret.was = FullURL
    /\ ret.str = <<34, 47, 92, 117, 48, 48, 50, 54, 51, 34>>
    /\ ret.u = URL(ZeroDID, <<47, 38, 51>>, <<>>, <<>>)
    /\ ret.w = ret.u

\* C27: Equal on strings is an equivalence on well-formed DID strings:
\* Equal(s1, s2) = Equal(s2, s1) for all strings, Equal(s, s) for every s
\* that Parse accepts, and Equal(s1, s2) and Equal(s2, s3) give
\* Equal(s1, s3).
C27_EqualEquivalence ==
    pc = "Equal" =>
        /\ ret.eq <=> Equal(o, s)
        /\ Parse(s).err.nil => Equal(s, s)
        /\ \A z \in EqInputs : ret.eq /\ Equal(o, z) => Equal(s, z)

-----------------------------------------------------------------------------
(* Ownable                                                                 *)

\* the accounts that send transactions are 1..NumAddresses
NumAddresses == 5

Senders == 1..NumAddresses

\* the arguments of transferOwnership: any address, address(0) included
Addresses == {ZeroAddress} \cup Senders

\* modifier onlyOwner that lets every sender pass
onlyOwner_anyone(own, sender) == TRUE

\* modifier onlyOwner: require(msg.sender == owner)
onlyOwner(own, sender) == sender = own

\* transferOwnership(newOwner) sent by sender: the owner afterwards and
\* whether the call reverted
transferOwnership(own, sender, newOwner) ==
    IF ~onlyOwner(own, sender) THEN [owner |-> own, reverted |-> TRUE]
    ELSE IF newOwner = ZeroAddress THEN [owner |-> own, reverted |-> TRUE]
    ELSE [owner |-> newOwner, reverted |-> FALSE]

\* the last transaction: its sender, its argument and whether it reverted
RetO == [sender |-> ZeroAddress, newOwner |-> ZeroAddress, reverted |-> FALSE]

\* constructor: owner = msg.sender
Constructor ==
    /\ pc = "start"
    /\ pc' = "constructor"
    /\ \E sender \in Senders :
          /\ owner' = sender
          /\ ret' = [RetO EXCEPT !.sender = sender]
    /\ UNCHANGED <<s, o, d, idx, params>>

\* a transaction calling transferOwnership(newOwner)
CallTransferOwnership ==
    /\ pc \in {"constructor", "transferOwnership"}
    /\ pc' = "transferOwnership"
    /\ \E sender \in Senders, newOwner \in Addresses :
          LET r == transferOwnership(owner, sender, newOwner)
          IN  /\ owner' = r.owner
              /\ ret' = [sender |-> sender, newOwner |-> newOwner,
                         reverted |-> r.reverted]
    /\ UNCHANGED <<s, o, d, idx, params>>

InitOwn ==
    /\ s = <<>>
    /\ o = <<>>
    /\ d = ZeroDID
    /\ idx = 0
    /\ pc = "start"
    /\ ret = RetO
    /\ params = NoParams
    /\ owner = ZeroAddress

NextOwn ==
    \/ Constructor
    \/ CallTransferOwnership

SpecOwn == InitOwn /\ [][NextOwn]_vars

\* C29: owner is initially the deployer; transferOwnership(newOwner)
\* changes owner to newOwner only when the caller is the current owner and
\* newOwner is not the zero address, and otherwise reverts leaving owner
\* unchanged; so owner is never the zero address once deployed and owner
\* only changes by a call of the then-current owner.
C29_Ownable ==
    /\ [](pc # "start" => owner # 0)
    /\ [][/\ pc = "start" => owner' = ret'.sender /\ ret'.sender # 0
          /\ pc # "start" =>
                IF ret'.sender = owner /\ ret'.newOwner # 0
                THEN owner' = ret'.newOwner /\ ~ret'.reverted
                ELSE owner' = owner /\ ret'.reverted
          /\ pc # "start" /\ owner' # owner => ret'.sender = owner]_vars

\* C29 witness: the owner 1 has handed the contract to 2
C29_Witness ==
    /\ pc = "transferOwnership"
    /\ ret = [sender |-> 1, newOwner |-> 2, reverted |-> FALSE]
    /\ owner = 2

====
